---- MODULE Spec2Model ----
(***************************************************************************)
(* SuperSSH - SSH Template Parser: the TextFSM-like engine                 *)
(* (TextFsmEngine.parseOutput with EngineOptions, getOrCompile and         *)
(* coerceValue).                                                           *)
(*                                                                         *)
(* Conventions.  A JavaScript string is a sequence of one-character        *)
(* strings, so that split, trim, Number and the regex engine are computed  *)
(* character by character.  A JavaScript value is a tagged record (string, *)
(* number, undefined, or a reference to an array of the heap); arrays live *)
(* in `heap` and are shared by reference, as in the program.  An object    *)
(* (the working set, a record, the groups of a match) is a function from   *)
(* its keys to values.                                                     *)
(***************************************************************************)
EXTENDS Integers, Sequences, FiniteSets, TLC

\* ------------------------------------------------------------------ bounds
\* Most lines a text of the Spec universe has.
MaxLines == 3
\* Most lines a text has under SpecTwo, where two calls are made.
MaxLinesTwo == 1
\* Most characters a text has under SpecSplit, where the texts are built
\* from characters, line terminators among them.
MaxText == 3
\* Most lines a text has under SpecNumber, where the template assigns to a
\* variable of type number.
MaxLinesNumber == 2
\* Most lines a text has under SpecChecked, where the templates are those
\* the Validator accepts.
MaxLinesChecked == 2

\* ------------------------------------------------------------------ values
Undef == [k |-> "undef", s |-> <<>>, n |-> 0]
StrV(s) == [k |-> "str", s |-> s, n |-> 0]
NumV(n) == [k |-> "num", s |-> <<>>, n |-> n]
RefV(id) == [k |-> "ref", s |-> <<>>, n |-> id]

\* An object without keys: {}.
EmptyObj == [key \in {} |-> Undef]

\* obj[key] = val (adds the key when absent).
ObjSet(obj, key, val) ==
  [x \in (DOMAIN obj) \cup {key} |-> IF x = key THEN val ELSE obj[x]]

\* A delete that leaves the key with an empty string.
ObjDelete_LeavesEmpty(obj, key) ==
  [x \in DOMAIN obj |-> IF x = key THEN [k |-> "str", s |-> <<>>, n |-> 0] ELSE obj[x]]

\* delete obj[key].
ObjDelete(obj, key) == [x \in (DOMAIN obj) \ {key} |-> obj[x]]

\* obj[key] as an expression: undefined when the key is absent.
ObjGet(obj, key) == IF key \in DOMAIN obj THEN obj[key] ELSE Undef

\* Array.isArray(v).
IsArray(v) == v.k = "ref"

\* The content of a value with every array reference followed (arrays nest at
\* most two deep here: an array of strings inside an array).
RECURSIVE Deep(_, _)
Deep(v, hp) ==
  IF v.k = "ref"
    THEN [k |-> "arr", items |-> [i \in 1..Len(hp[v.n]) |-> Deep(hp[v.n][i], hp)]]
    ELSE [k |-> v.k, s |-> v.s, n |-> v.n]

DeepObj(obj, hp) == [x \in DOMAIN obj |-> Deep(obj[x], hp)]

\* ----------------------------------------------------------------- strings
Whitespace == {" ", "\t"}
Digits == {"0", "1", "2", "3", "4", "5", "6", "7", "8", "9"}

DigitVal(c) ==
  CASE c = "0" -> 0 [] c = "1" -> 1 [] c = "2" -> 2 [] c = "3" -> 3
    [] c = "4" -> 4 [] c = "5" -> 5 [] c = "6" -> 6 [] c = "7" -> 7
    [] c = "8" -> 8 [] c = "9" -> 9

\* String.prototype.trim.
RECURSIVE TrimLeft(_)
TrimLeft(s) == IF s # <<>> /\ Head(s) \in Whitespace THEN TrimLeft(Tail(s)) ELSE s
RECURSIVE TrimRight(_)
TrimRight(s) ==
  IF s # <<>> /\ s[Len(s)] \in Whitespace
    THEN TrimRight(SubSeq(s, 1, Len(s) - 1))
    ELSE s
Trim(s) == TrimRight(TrimLeft(s))

\* String.prototype.split(sep) for a one-character separator: the pieces
\* between separators, the empty ones included.
RECURSIVE SplitOn(_, _, _)
SplitOn(s, sep, piece) ==
  IF s = <<>> THEN <<piece>>
  ELSE IF Head(s) = sep THEN <<piece>> \o SplitOn(Tail(s), sep, <<>>)
  ELSE SplitOn(Tail(s), sep, Append(piece, Head(s)))

\* A split that drops an empty last segment (what the program does not do).
RECURSIVE SplitLines_DropsTrailing(_, _)
SplitLines_DropsTrailing(s, piece) ==
  IF s = <<>> THEN IF piece = <<>> THEN <<>> ELSE <<piece>>
  ELSE IF Head(s) = "\n" THEN <<piece>> \o SplitLines_DropsTrailing(Tail(s), <<>>)
  ELSE IF Head(s) = "\r" /\ Len(s) >= 2 /\ s[2] = "\n"
    THEN <<piece>> \o SplitLines_DropsTrailing(SubSeq(s, 3, Len(s)), <<>>)
  ELSE SplitLines_DropsTrailing(Tail(s), Append(piece, Head(s)))

\* output.split(/\r?\n/): a line ends at LF or at CR LF; a CR not followed
\* by LF stays in its line.
RECURSIVE SplitLines(_, _)
SplitLines(s, piece) ==
  IF s = <<>> THEN <<piece>>
  ELSE IF Head(s) = "\n" THEN <<piece>> \o SplitLines(Tail(s), <<>>)
  ELSE IF Head(s) = "\r" /\ Len(s) >= 2 /\ s[2] = "\n"
    THEN <<piece>> \o SplitLines(SubSeq(s, 3, Len(s)), <<>>)
  ELSE SplitLines(Tail(s), Append(piece, Head(s)))

\* The decimal value of a string of digits.
RECURSIVE DecimalValue(_, _)
DecimalValue(s, acc) ==
  IF s = <<>> THEN acc ELSE DecimalValue(Tail(s), 10 * acc + DigitVal(Head(s)))

\* Number(raw) for a string over letters, digits, commas and blanks: blanks
\* around are ignored, the empty string is 0, a string of digits is its
\* value, anything else is NaN.  Number(undefined) is NaN.
ToNumber(raw) ==
  IF raw.k = "num" THEN [nan |-> FALSE, n |-> raw.n]
  ELSE IF raw.k # "str" THEN [nan |-> TRUE, n |-> 0]
  ELSE LET t == Trim(raw.s) IN
    IF \A i \in 1..Len(t) : t[i] \in Digits
      THEN [nan |-> FALSE, n |-> DecimalValue(t, 0)]
      ELSE [nan |-> TRUE, n |-> 0]

\* String(value ?? '') of parseOutput's set and append actions.
ToStringOrEmpty(v) == IF v.k = "undef" THEN StrV(<<>>) ELSE v

\* ------------------------------------------------------------------- regex
\* The regex sources of the templates are of one shape: an optional ^, a
\* sequence of atoms and an optional $.  An atom consumes one character of a
\* class; it may be wrapped in a named group, (?<g>[..]), and the group may
\* be optional, (?<g>[..])?.  `valid` is false for a source the regex engine
\* rejects (new RegExp throws a SyntaxError).
Atom(chars, group, quant) == [chars |-> chars, group |-> group, quant |-> quant]

\* The flags new RegExp accepts; g and y make exec stateful, i folds case.
ValidFlags == {"d", "g", "i", "m", "s", "u", "y"}

Lower(c) == IF c = "A" THEN "a" ELSE IF c = "B" THEN "b" ELSE c

CharIn(c, chars, flags) ==
  IF "i" \in flags THEN Lower(c) \in {Lower(x) : x \in chars} ELSE c \in chars

NoMatch == [ok |-> FALSE, end |-> 0, groups |-> EmptyObj]

\* The atoms from the k-th on matched at offset pos (0-based) of line, with
\* backtracking: an optional atom is taken when it can be (greedy) and
\* skipped when the rest then fails.  A group that did not participate is
\* in the groups object with the value undefined.
RECURSIVE MatchAtoms(_, _, _, _, _)
MatchAtoms(re, flags, line, k, pos) ==
  IF k > Len(re.atoms)
    THEN IF re.anchorEnd /\ pos # Len(line)
           THEN NoMatch
           ELSE [ok |-> TRUE, end |-> pos, groups |-> EmptyObj]
    ELSE
      LET a == re.atoms[k]
          hit == pos < Len(line) /\ CharIn(line[pos + 1], a.chars, flags)
          taken == IF hit THEN MatchAtoms(re, flags, line, k + 1, pos + 1) ELSE NoMatch
          skipped == MatchAtoms(re, flags, line, k + 1, pos)
          With(r, v) ==
            IF r.ok /\ a.group # ""
              THEN [r EXCEPT !.groups = ObjSet(r.groups, a.group, v)]
              ELSE r
      IN IF taken.ok THEN With(taken, StrV(<<line[pos + 1]>>))
         ELSE IF a.quant = "opt" THEN With(skipped, Undef)
         ELSE NoMatch

\* The first offset from `from` on at which the regex matches; a sticky
\* regex tries the offset `from` alone, and ^ matches at offset 0 alone.
RECURSIVE Search(_, _, _, _)
Search(re, flags, line, from) ==
  IF from > Len(line) THEN NoMatch
  ELSE LET r == IF re.anchorStart /\ from # 0
                  THEN NoMatch
                  ELSE MatchAtoms(re, flags, line, 1, from)
       IN IF r.ok THEN r
          ELSE IF "y" \in flags THEN NoMatch
          ELSE Search(re, flags, line, from + 1)

\* RegExp.prototype.exec on a RegExp object rx = [re, flags, lastIndex].
\* With the g or y flag the search starts at rx.lastIndex, and lastIndex is
\* set to the end of the match, or to 0 when there is none; without them
\* lastIndex is neither read nor written.
RegExpExec(rx, line) ==
  LET stateful == "g" \in rx.flags \/ "y" \in rx.flags
      from == IF stateful THEN rx.lastIndex ELSE 0
      r == Search(rx.re, rx.flags, line, from)
  IN [ok |-> r.ok,
      groups |-> r.groups,
      lastIndex |-> IF ~stateful THEN rx.lastIndex
                    ELSE IF r.ok THEN r.end ELSE 0]

\* The named groups of a regex, in the order of the source.
GroupNames(re) ==
  LET sel == SelectSeq(re.atoms, LAMBDA a : a.group # "")
  IN [i \in 1..Len(sel) |-> sel[i].group]

\* new RegExp(source, flags): whether it returns (TRUE) or throws.
RegExpCompiles(p) == p.regex.valid /\ p.flags \subseteq ValidFlags

\* The exceptions the engine lets out of parseOutput: the name of the error
\* class, the state name and the pattern index the error object carries
\* ("" and -1: it carries none), and its message.
NoError == [name |-> "", state |-> "", index |-> -1, message |-> ""]

\* The SyntaxError of new RegExp(p.regex, p.flags): the message of the
\* regex engine, nothing about the template.
SyntaxError(p) ==
  [name |-> "SyntaxError", state |-> "", index |-> -1,
   message |-> IF p.regex.valid THEN "Invalid flags supplied to RegExp constructor"
               ELSE "Invalid regular expression"]

\* The TypeError of a property read on undefined.
TypeError == [name |-> "TypeError", state |-> "", index |-> -1,
              message |-> "Cannot read properties of undefined"]

\* --------------------------------------------------------------- templates
\* Template, State, StatePattern, Action, Transition and Variable values.
\* An optional field that is absent is "" (variable, fromGroup, type),
\* undefined (value), the empty object (map), the empty list (actions,
\* variables) or present = FALSE (transition): the code treats the absent
\* and the empty value alike in each of these places.
Action(type, variable, fromGroup, value) ==
  [type |-> type, variable |-> variable, fromGroup |-> fromGroup, value |-> value]

Transition(to, when) == [present |-> TRUE, to |-> to, when |-> when]
NoTransition == [present |-> FALSE, to |-> "", when |-> "undefined"]

StatePattern(regex, flags, map, actions, transition) ==
  [regex |-> regex, flags |-> flags, map |-> map, actions |-> actions,
   transition |-> transition]

State(name, patterns) == [name |-> name, patterns |-> patterns]

Variable(name, type) == [name |-> name, type |-> type]

Template(id, name, variables, states) ==
  [id |-> id, name |-> name, variables |-> variables, states |-> states]

EngineOptions(debug, resetOnEmit, coerceTypes) ==
  [debug |-> debug, resetOnEmit |-> resetOnEmit, coerceTypes |-> coerceTypes]

\* ------------------------------------------------------------ getOrCompile
\* s.patterns.map(p => ({regex: new RegExp(p.regex, p.flags), map, actions,
\* transition})): a fresh RegExp has lastIndex 0.
CompilePattern(p) ==
  [regex |-> [re |-> p.regex, flags |-> p.flags, lastIndex |-> 0],
   map |-> p.map, actions |-> p.actions, transition |-> p.transition]

\* The Map filled by states.set(s.name, ..) in list order: for a name that
\* several states carry, the last of them.
CompileStates(states) ==
  LET names == {states[i].name : i \in 1..Len(states)}
      last(nm) == CHOOSE i \in 1..Len(states) :
                    /\ states[i].name = nm
                    /\ \A j \in 1..Len(states) : states[j].name = nm => j <= i
  IN [nm \in names |->
        [name |-> nm,
         patterns |-> [j \in 1..Len(states[last(nm)].patterns) |->
                         CompilePattern(states[last(nm)].patterns[j])]]]

\* The patterns new RegExp throws on, as <<state position, pattern position>>.
InvalidPatterns(states) ==
  {ij \in UNION {{<<i, j>> : j \in 1..Len(states[i].patterns)} : i \in 1..Len(states)} :
     ~RegExpCompiles(states[ij[1]].patterns[ij[2]])}

\* The first of them in the order of the two loops (states, then the
\* patterns of a state): the one whose exception ends the compilation.
\* index is the 0-based position of the pattern in its state.
FirstInvalid(states) ==
  LET ij == CHOOSE a \in InvalidPatterns(states) :
              \A b \in InvalidPatterns(states) :
                a[1] < b[1] \/ (a[1] = b[1] /\ a[2] <= b[2])
  IN [state |-> states[ij[1]].name, index |-> ij[2] - 1,
      pattern |-> states[ij[1]].patterns[ij[2]]]

\* getOrCompile with compiledCache.set moved before the compilation of the
\* patterns: a compilation that fails leaves an entry without states.
GetOrCompile_StoresFirst(cache, tpl) ==
  IF tpl.id \in DOMAIN cache THEN [thrown |-> FALSE, cache |-> cache, error |-> NoError]
  ELSE IF InvalidPatterns(tpl.states) # {} \/ tpl.states = <<>>
    THEN [thrown |-> TRUE, error |-> TypeError,
          cache |-> ObjSet(cache, tpl.id,
                      [template |-> tpl, states |-> CompileStates(<<>>),
                       startState |-> ""])]
  ELSE [thrown |-> FALSE, error |-> NoError,
        cache |-> ObjSet(cache, tpl.id,
                    [template |-> tpl,
                     states |-> CompileStates(tpl.states),
                     startState |-> tpl.states[1].name])]

\* getOrCompile without the cache lookup: every call compiles the template
\* it is given and stores it under its id.
GetOrCompile_AlwaysCompiles(cache, tpl) ==
  IF InvalidPatterns(tpl.states) # {}
    THEN [thrown |-> TRUE, cache |-> cache,
          error |-> SyntaxError(FirstInvalid(tpl.states).pattern)]
  ELSE IF tpl.states = <<>> THEN [thrown |-> TRUE, cache |-> cache, error |-> TypeError]
  ELSE [thrown |-> FALSE, error |-> NoError,
        cache |-> ObjSet(cache, tpl.id,
                    [template |-> tpl,
                     states |-> CompileStates(tpl.states),
                     startState |-> tpl.states[1].name])]

\* getOrCompile(template): the cached Compiled Template of template.id when
\* there is one; otherwise the template is compiled and stored.  It throws,
\* storing nothing, when a regex does not compile (SyntaxError of new
\* RegExp) or when the states list is empty (template.states[0].name).
GetOrCompile(cache, tpl) ==
  IF tpl.id \in DOMAIN cache THEN [thrown |-> FALSE, cache |-> cache, error |-> NoError]
  ELSE IF InvalidPatterns(tpl.states) # {}
    THEN [thrown |-> TRUE, cache |-> cache,
          error |-> SyntaxError(FirstInvalid(tpl.states).pattern)]
  ELSE IF tpl.states = <<>> THEN [thrown |-> TRUE, cache |-> cache, error |-> TypeError]
  ELSE [thrown |-> FALSE, error |-> NoError,
        cache |-> ObjSet(cache, tpl.id,
                    [template |-> tpl,
                     states |-> CompileStates(tpl.states),
                     startState |-> tpl.states[1].name])]

\* ------------------------------------------------------------- coerceValue
\* variableIndex: for (const v of template.variables || []) set(v.name, v).
VariableIndex(tpl) ==
  LET vs == tpl.variables
      names == {vs[i].name : i \in 1..Len(vs)}
      last(nm) == CHOOSE i \in 1..Len(vs) :
                    /\ vs[i].name = nm
                    /\ \A j \in 1..Len(vs) : vs[j].name = nm => j <= i
  IN [nm \in names |-> vs[last(nm)]]

\* raw.split(',').map(s => s.trim()).filter(s => s.length > 0).
ListPieces(s) ==
  LET trimmed == [i \in 1..Len(SplitOn(s, ",", <<>>)) |-> Trim(SplitOn(s, ",", <<>>)[i])]
      kept == SelectSeq(trimmed, LAMBDA x : Len(x) > 0)
  IN [i \in 1..Len(kept) |-> StrV(kept[i])]

\* coerceValue(name, raw, index).  The result is a value, or a new array
\* (list = TRUE, its elements in items), or a TypeError (thrown = TRUE):
\* raw.split of a raw that is undefined.
CoerceValue(name, raw, index) ==
  LET plain(v) == [thrown |-> FALSE, list |-> FALSE, v |-> v, items |-> <<>>]
  IN IF name \notin DOMAIN index \/ index[name].type = "" THEN plain(raw)
     ELSE IF index[name].type = "number"
       THEN IF ToNumber(raw).nan THEN plain(raw) ELSE plain(NumV(ToNumber(raw).n))
     ELSE IF index[name].type = "list"
       THEN IF raw.k # "str"
              THEN [thrown |-> TRUE, list |-> FALSE, v |-> Undef, items |-> <<>>]
              ELSE [thrown |-> FALSE, list |-> TRUE, v |-> Undef,
                    items |-> ListPieces(raw.s)]
     ELSE plain(raw)

\* The value a coercion result stands for, the array allocated in the heap.
Materialize(c, hp) ==
  IF c.list
    THEN [v |-> RefV(Len(hp) + 1), heap |-> Append(hp, c.items)]
    ELSE [v |-> c.v, heap |-> hp]

\* ------------------------------------------------- parseOutput, line steps
\* const varName = pattern.map?.[groupName] || groupName.
VarNameOf(map, groupName) ==
  IF groupName \in DOMAIN map /\ map[groupName] # "" THEN map[groupName] ELSE groupName

\* options.coerceTypes ? this.coerceValue(name, raw, variableIndex) : value.
Assigned(opts, name, raw, value, index) ==
  IF opts.coerceTypes
    THEN CoerceValue(name, raw, index)
    ELSE [thrown |-> FALSE, list |-> FALSE, v |-> value, items |-> <<>>]

\* The pattern loop without the break after a match: the last pattern that
\* matches is the one applied.
RECURSIVE PatternLoop_NoBreak(_, _, _, _)
PatternLoop_NoBreak(patterns, line, idx, evaluated) ==
  IF idx > Len(patterns)
    THEN [matched |-> FALSE, idx |-> 0, groups |-> EmptyObj,
          patterns |-> patterns, evaluated |-> evaluated]
    ELSE LET m == RegExpExec(patterns[idx].regex, line)
             ps == [patterns EXCEPT ![idx].regex.lastIndex = m.lastIndex]
             rest == PatternLoop_NoBreak(ps, line, idx + 1, evaluated \cup {idx})
         IN IF m.ok /\ ~rest.matched
              THEN [matched |-> TRUE, idx |-> idx, groups |-> m.groups,
                    patterns |-> rest.patterns, evaluated |-> rest.evaluated]
              ELSE rest

\* The pattern loop of one line: regex.exec of the state's patterns in list
\* order from idx on, up to and including the first that matches.  Every
\* exec may move the lastIndex of its (cached) RegExp.  `evaluated` is the
\* set of the patterns exec was called on.
RECURSIVE PatternLoop(_, _, _, _)
PatternLoop(patterns, line, idx, evaluated) ==
  IF idx > Len(patterns)
    THEN [matched |-> FALSE, idx |-> 0, groups |-> EmptyObj,
          patterns |-> patterns, evaluated |-> evaluated]
    ELSE LET m == RegExpExec(patterns[idx].regex, line)
             ps == [patterns EXCEPT ![idx].regex.lastIndex = m.lastIndex]
         IN IF m.ok
              THEN [matched |-> TRUE, idx |-> idx, groups |-> m.groups,
                    patterns |-> ps, evaluated |-> evaluated \cup {idx}]
              ELSE PatternLoop(ps, line, idx + 1, evaluated \cup {idx})

\* The bindings left out.
BindGroups_Skipped(names, i, grp, map, opts, index, st) == st

\* for (const [groupName, value] of Object.entries(groups)): the bindings
\* of the named groups, in the order of the regex source, from the i-th on.
\* st = [thrown, working, heap]; a coercion that throws ends the loop.
RECURSIVE BindGroups(_, _, _, _, _, _, _)
BindGroups(names, i, grp, map, opts, index, st) ==
  IF i > Len(names) \/ st.thrown THEN st
  ELSE LET varName == VarNameOf(map, names[i])
           c == Assigned(opts, varName, grp[names[i]], grp[names[i]], index)
           mz == Materialize(c, st.heap)
       IN IF c.thrown
            THEN [st EXCEPT !.thrown = TRUE]
            ELSE BindGroups(names, i + 1, grp, map, opts, index,
                   [thrown |-> FALSE,
                    working |-> ObjSet(st.working, varName, mz.v),
                    heap |-> mz.heap])

\* action.fromGroup ? groups[action.fromGroup] : action.value.
ActionValue(a, grp) == IF a.fromGroup # "" THEN ObjGet(grp, a.fromGroup) ELSE a.value

\* The set action.
ApplySet(a, grp, opts, index, w, hp) ==
  LET value == ActionValue(a, grp)
      mz == Materialize(Assigned(opts, a.variable, ToStringOrEmpty(value), value, index), hp)
  IN [working |-> ObjSet(w, a.variable, mz.v), heap |-> mz.heap]

\* The three branches of the append action on the current value of the
\* variable: push on an array (the array object itself is changed), a new
\* one-element array when the current value is undefined, a new two-element
\* array otherwise.
AppendBranch(current, finalVal, variable, w, hp) ==
  IF IsArray(current)
    THEN [working |-> w,
          heap |-> [hp EXCEPT ![current.n] = Append(@, finalVal)]]
  ELSE IF current = Undef
    THEN [working |-> ObjSet(w, variable, RefV(Len(hp) + 1)),
          heap |-> Append(hp, <<finalVal>>)]
  ELSE [working |-> ObjSet(w, variable, RefV(Len(hp) + 1)),
        heap |-> Append(hp, <<current, finalVal>>)]

\* The append action.
ApplyAppend(a, grp, opts, index, w, hp) ==
  LET current == ObjGet(w, a.variable)
      value == ActionValue(a, grp)
      mz == Materialize(Assigned(opts, a.variable, ToStringOrEmpty(value), value, index), hp)
  IN AppendBranch(current, mz.v, a.variable, w, mz.heap)

\* An emit that replaces the records by the one it makes.
EmitRecord_KeepsLast(recs, w) == <<w>>

\* records.push({ ...working }): the record has the keys of the working set
\* and, for each, the same value (an array is shared, not copied).
EmitRecord(recs, w) == Append(recs, w)

\* The reset after an emit done whatever options.resetOnEmit says, and never.
AfterEmit_Always(w, opts) == EmptyObj
AfterEmit_Never(w, opts) == w

\* if (options.resetOnEmit) for (const key of Object.keys(working)) delete working[key].
AfterEmit(w, opts) == IF opts.resetOnEmit THEN EmptyObj ELSE w

\* One action of the matched pattern applied to [working, heap, records].
ApplyAction(a, grp, opts, index, st) ==
  IF a.type = "set" /\ a.variable # ""
    THEN LET r == ApplySet(a, grp, opts, index, st.working, st.heap)
         IN [working |-> r.working, heap |-> r.heap, records |-> st.records]
  ELSE IF a.type = "clear" /\ a.variable # ""
    THEN [st EXCEPT !.working = ObjDelete(st.working, a.variable)]
  ELSE IF a.type = "append" /\ a.variable # ""
    THEN LET r == ApplyAppend(a, grp, opts, index, st.working, st.heap)
         IN [working |-> r.working, heap |-> r.heap, records |-> st.records]
  ELSE IF a.type = "emit"
    THEN [working |-> AfterEmit(st.working, opts), heap |-> st.heap,
          records |-> EmitRecord(st.records, st.working)]
  ELSE st

\* Whether the transition of a matched pattern is applied:
\* t && (t.when === 'always' || t.when === undefined || t.when === 'match').
TransitionApplies(t) == t.present /\ t.when \in {"always", "undefined", "match"}

\* The transition that takes "self" for the name of a state.
ApplyTransition_FollowsSelf(t, cur, processed, total) ==
  IF ~TransitionApplies(t)
    THEN [state |-> cur, linesProcessed |-> processed]
  ELSE IF t.to = "end"
    THEN [state |-> cur, linesProcessed |-> total]
  ELSE [state |-> t.to, linesProcessed |-> processed]

\* The transition without its last branch: a state name is never followed.
ApplyTransition_NeverMoves(t, cur, processed, total) ==
  IF TransitionApplies(t) /\ t.to = "end"
    THEN [state |-> cur, linesProcessed |-> total]
    ELSE [state |-> cur, linesProcessed |-> processed]

\* The transition applied to [currentStateName, linesProcessed]: "self"
\* keeps the state; "end" sets linesProcessed to lines.length and leaves the
\* pattern loop (break), which is also where the loop is left after any
\* other match; another name becomes the current state.
ApplyTransition(t, cur, processed, total) ==
  IF ~TransitionApplies(t) \/ t.to = "self"
    THEN [state |-> cur, linesProcessed |-> processed]
  ELSE IF t.to = "end"
    THEN [state |-> cur, linesProcessed |-> total]
  ELSE [state |-> t.to, linesProcessed |-> processed]

\* matches counted up for every line, matched or not.
CountMatch_EveryLine(n, wasMatched) == n + 1

\* matches += 1, in the body of the pattern loop after a successful exec.
CountMatch(n, wasMatched) == IF wasMatched THEN n + 1 ELSE n

\* A working set kept from call to call.
NewWorking_Kept(left) == left

\* const working = {}: the working set of a call, whatever the call before
\* left in its own.
NewWorking(left) == EmptyObj

\* `Unknown state: ${currentStateName}`.
UnknownStateMessage(name) == <<"Unknown state: ", name>>

\* The trace with the entry of one line, when options.debug.
PushTrace(tr, opts, line, state, wasMatched, idx) ==
  IF opts.debug
    THEN Append(tr, [line |-> line, state |-> state, matched |-> wasMatched,
                     matchedIdx |-> idx])
    ELSE tr

\* ------------------------------------------------------------------ inputs
\* Regex sources.
\*   ^a(?<x>1)?      a line that starts with a; x is "1" or did not participate
ReA == [valid |-> TRUE, anchorStart |-> TRUE, anchorEnd |-> FALSE,
        atoms |-> <<Atom({"a"}, "", "one"), Atom({"1"}, "x", "opt")>>]
\*   b               a line that holds a b
ReB == [valid |-> TRUE, anchorStart |-> FALSE, anchorEnd |-> FALSE,
        atoms |-> <<Atom({"b"}, "", "one")>>]
\*   ^(?<y>[ab])     any line that starts with a or b; y is that character
ReAny == [valid |-> TRUE, anchorStart |-> TRUE, anchorEnd |-> FALSE,
          atoms |-> <<Atom({"a", "b"}, "y", "one")>>]
\*   ^a$             the line a
ReOnlyA == [valid |-> TRUE, anchorStart |-> TRUE, anchorEnd |-> TRUE,
            atoms |-> <<Atom({"a"}, "", "one")>>]
\*   ^$              the empty line
ReBlank == [valid |-> TRUE, anchorStart |-> TRUE, anchorEnd |-> TRUE, atoms |-> <<>>]
\*   (               not a regular expression
ReBad == [valid |-> FALSE, anchorStart |-> FALSE, anchorEnd |-> FALSE, atoms |-> <<>>]

Emit == Action("emit", "", "", Undef)
SetLit(v, str) == Action("set", v, "", StrV(str))
SetFrom(v, g) == Action("set", v, g, Undef)
Clear(v) == Action("clear", v, "", Undef)
AppendLit(v, str) == Action("append", v, "", StrV(str))
AppendFrom(v, g) == Action("append", v, g, Undef)

NoMap == EmptyObj

\* The state lists of the templates, by template id.
StatesOf(id) ==
  CASE id = "host" ->
         <<State("start", <<StatePattern(ReA, {}, NoMap, <<Emit>>, NoTransition)>>)>>
    [] id = "blank" ->
         <<State("start",
             <<StatePattern(ReBlank, {}, NoMap, <<Emit>>, NoTransition),
               StatePattern(ReA, {}, NoMap, <<Emit>>, NoTransition)>>)>>
    [] id = "number" ->
         <<State("start",
             <<StatePattern(ReA, {}, NoMap,
                            <<Emit, SetFrom("x", "x"), Emit, Clear("x"),
                              AppendFrom("x", "x"), Emit>>,
                            NoTransition),
               StatePattern(ReB, {}, NoMap,
                            <<SetLit("x", <<"k">>), Emit, SetLit("x", <<" ", "1", "0">>), Emit,
                              Action("set", "x", "", Undef), Emit,
                              AppendLit("w", <<"1">>), AppendLit("x", <<"k">>), Emit>>,
                            NoTransition)>>)>>
    [] id = "end" ->
         <<State("start",
             <<StatePattern(ReB, {}, NoMap, <<SetLit("w", <<"k">>), Emit>>,
                            Transition("end", "undefined")),
               StatePattern(ReAny, {}, NoMap, <<Emit>>, NoTransition)>>)>>
    [] id = "nope" ->
         <<State("start",
             <<StatePattern(ReB, {}, NoMap, <<SetLit("w", <<"k">>), Emit>>,
                            Transition("nope", "match")),
               StatePattern(ReA, {}, NoMap, <<Emit>>, NoTransition)>>)>>
    [] id = "two" ->
         <<State("start",
             <<StatePattern(ReA, {"i"}, [g \in {"x"} |-> "h"], <<>>,
                            Transition("body", "match"))>>),
           State("body",
             <<StatePattern(ReB, {}, NoMap, <<Emit>>, Transition("self", "undefined")),
               StatePattern(ReOnlyA, {}, NoMap, <<Clear("h"), Emit>>,
                            Transition("start", "always")),
               StatePattern(ReAny, {}, NoMap, <<SetFrom("h", "y")>>, NoTransition)>>)>>
    [] id = "first" ->
         <<State("start",
             <<StatePattern(ReOnlyA, {}, NoMap, <<SetLit("w", <<"p", "0">>)>>, NoTransition),
               StatePattern(ReA, {}, NoMap, <<SetLit("w", <<"p", "1">>), Emit>>, NoTransition),
               StatePattern(ReAny, {}, NoMap, <<SetLit("w", <<"p", "2">>), Emit>>,
                            NoTransition)>>)>>
    [] id = "append" ->
         <<State("start",
             <<StatePattern(ReA, {}, NoMap, <<AppendFrom("l", "x"), Emit>>, NoTransition),
               StatePattern(ReB, {}, NoMap,
                            <<AppendLit("x", <<"1", ",", " ", "a">>), Emit, Emit>>,
                            NoTransition)>>)>>
    [] id = "global" ->
         <<State("start",
             <<StatePattern(ReB, {"g"}, NoMap, <<Emit>>, NoTransition),
               StatePattern(ReA, {"y"}, NoMap, <<SetFrom("w", "x"), Emit>>,
                            NoTransition)>>)>>
    [] id = "mixed" ->
         <<State("start",
             <<StatePattern(ReB, {}, NoMap, <<Emit>>, Transition("end", "always")),
               StatePattern(ReA, {}, NoMap,
                            <<SetLit("x", <<"k">>), Emit, Clear("x"), Emit, Clear("x"),
                              Action("clear", "", "", Undef),
                              AppendLit("x", <<"k">>), Emit>>,
                            Transition("nope", "match"))>>)>>
    [] id = "bad" ->
         <<State("start", <<StatePattern(ReA, {}, NoMap, <<Emit>>, NoTransition)>>),
           State("body",
             <<StatePattern(ReB, {}, NoMap, <<Emit>>, NoTransition),
               StatePattern(ReBad, {}, NoMap, <<Emit>>, NoTransition)>>)>>
    [] id = "empty" -> <<>>

\* The variables lists of the templates.
NoVariables == <<>>
NumberVariables == <<Variable("x", "number"), Variable("w", "")>>
ListVariables == <<Variable("x", "string"), Variable("x", "list"), Variable("l", "list")>>

TemplateIds ==
  {"host", "end", "nope", "two", "first", "append", "global", "mixed", "bad", "empty"}

Templates ==
  {Template(id, id, vs, StatesOf(id)) :
     id \in TemplateIds, vs \in {NoVariables, NumberVariables, ListVariables}}

AllOptions ==
  {EngineOptions(d, r, c) : d \in BOOLEAN, r \in BOOLEAN, c \in BOOLEAN}

\* The lines of the texts.
LineA == <<"a">>
LineA1 == <<"a", "1">>
LineB == <<"b">>
Lines == {LineA, LineA1, LineB}

\* The lines joined by line feeds into one text.
RECURSIVE JoinLines(_)
JoinLines(ls) ==
  IF Len(ls) = 1 THEN ls[1] ELSE ls[1] \o <<"\n">> \o JoinLines(Tail(ls))

\* The texts of at most n lines.
Texts(n) ==
  {JoinLines(ls) : ls \in UNION {[1..k -> Lines] : k \in 1..n}}

\* ------------------------------------------------------------------- state
VARIABLES
  compiledCache,     \* TextFsmEngine.compiledCache: template id -> Compiled Template
  heap,              \* the arrays the running call has created, by reference
  pc,                \* where parseOutput stands: idle (no call), line, bind,
                     \* action, transition, return
  output, template, options,   \* the arguments of the running (or last) call
  lines, lineNo,     \* output.split(/\r?\n/) and the position of the for-of in it
  records, working, trace,
  currentStateName, linesProcessed, matches, errors,
  matched, matchedIdx, groups, \* of the line being processed
  actIdx,            \* the position of the for-of over pattern.actions
  result,            \* what the last call returned, or that it threw
  callsLeft,         \* calls the caller still makes on this engine instance
  scope,             \* the input universe of the caller
  hist,              \* history of the running call (not program state)
  prev,              \* the call before the running one (not program state)
  coerced,           \* coerceValue applied on its own: the variable name, the
                     \* raw string, the value returned and the number of
                     \* applications
  validation,        \* TemplateValidator.validate: the template given and
                     \* the result returned
  conn,              \* Ssh2ConnectionManager.executeCommandWithRetry: its
                     \* arguments, locals, position and outcome
  store              \* TemplateManager: the files of storageDir/templates, the
                     \* clock, and the last call with what it returned

frame == <<output, template, options, lines, lineNo, records, working, trace,
           currentStateName, linesProcessed, matches, errors, matched,
           matchedIdx, groups, actIdx>>
engine == <<compiledCache, heap, pc, frame, result, callsLeft, scope, hist, prev>>
\* What the steps of parseOutput leave alone.
aside == <<coerced, validation, conn, store>>
vars == <<engine, aside>>

NoTemplate == Template("", "", <<>>, <<>>)
NoOptions == EngineOptions(FALSE, FALSE, FALSE)

\* A result whose meta.errors is the errors list whatever its length.
ParseResult_ErrorsAlways(tpl, recs, hp, processed, nMatches, errs, opts, tr) ==
  [status |-> "returned",
   templateId |-> tpl.id,
   templateName |-> tpl.name,
   records |-> [i \in 1..Len(recs) |-> DeepObj(recs[i], hp)],
   meta |-> [linesProcessed |-> processed, matches |-> nMatches,
             errors |-> [defined |-> TRUE, list |-> errs]],
   trace |-> [present |-> opts.debug, entries |-> IF opts.debug THEN tr ELSE <<>>],
   error |-> NoError]

\* The Parse Result: records with the arrays they refer to written out,
\* meta.errors undefined (defined = FALSE) or a list, trace present or not.
ParseResult(tpl, recs, hp, processed, nMatches, errs, opts, tr) ==
  [status |-> "returned",
   templateId |-> tpl.id,
   templateName |-> tpl.name,
   records |-> [i \in 1..Len(recs) |-> DeepObj(recs[i], hp)],
   meta |-> [linesProcessed |-> processed, matches |-> nMatches,
             errors |-> [defined |-> Len(errs) > 0, list |-> errs]],
   trace |-> [present |-> opts.debug, entries |-> IF opts.debug THEN tr ELSE <<>>],
   error |-> NoError]

EmptyResult(status) ==
  [status |-> status, templateId |-> "", templateName |-> "", records |-> <<>>,
   meta |-> [linesProcessed |-> 0, matches |-> 0,
             errors |-> [defined |-> FALSE, list |-> <<>>]],
   trace |-> [present |-> FALSE, entries |-> <<>>],
   error |-> NoError]

\* No call has ended yet; the call threw the exception err.
NoResult == EmptyResult("none")
Thrown(err) == [EmptyResult("thrown") EXCEPT !.error = err]

\* The history of a call at its start.
NewHist ==
  [snapshots |-> <<>>,        \* the content of the working set at each emit
   live |-> {},               \* variables bound, set or appended and not cleared since
   liveAtEmit |-> <<>>,       \* live at each emit
   touched |-> {},            \* variables bound, set or appended since the last emit
   touchedAtEmit |-> <<>>,    \* touched at each emit
   endAt |-> 0,               \* the line on which an "end" transition first fired
   unknownAt |-> 0,           \* the line on which a transition to a state that is
                              \* not in the table was first applied
   unknownTo |-> "",          \* the name of that state
   recordsAtUnknown |-> <<>>, \* the content of the records then
   before |-> <<>>,           \* the patterns of the state before the line's execs
   evaluated |-> {},          \* the patterns exec was called on for the line
   matchesBefore |-> 0,       \* matches before the line
   lastOp |-> "",             \* the type of the action executed last on the line
   lastVar |-> "",            \* the variable it names
   workingBefore |-> EmptyObj,\* the working set before that action
   heapBefore |-> <<>>,       \* the arrays before that action
   cacheBefore |-> EmptyObj,  \* the compiled cache when the call was made
   compileFailed |-> FALSE,   \* getOrCompile threw
   matchedLines |-> {},       \* the lines on which a pattern matched
   stateAtLine |-> "",        \* the state the line was looked up in
   faultAt |-> 0,             \* the line at whose start the current state was
                              \* not in the state table
   matchesAtFault |-> 0,      \* matches, the records and the errors before
   recordsAtFault |-> <<>>,   \* that line
   errorsAtFault |-> <<>>,
   other |->                  \* the working set, arrays and records the same
                              \* call has with the other value of coerceTypes
     [working |-> EmptyObj, heap |-> <<>>, records |-> <<>>, thrown |-> FALSE]
  ]

NotValidated ==
  [done |-> FALSE, valid |-> FALSE, errors |-> <<>>,
   template |-> [id |-> "", name |-> "", vendor |-> "", variables |-> <<>>,
                 states |-> <<>>]]

\* A new TemplateManager on an empty storage directory.  files maps the id
\* of each <id>.json to the template it holds; now is the clock of
\* new Date(); removed (history) holds the ids that remove was called with
\* and that no upsert was called with since.
EmptyStore ==
  [files |-> EmptyObj, now |-> 1, removed |-> {}, upserted |-> EmptyObj,
   last |-> [op |-> "", id |-> "", thrown |-> FALSE, found |-> {}, arg |-> {}, at |-> 0]]

\* executeCommandWithRetry not called yet.  connects, waits and kinds are
\* history: the calls of connectAndExecuteCommand made, the waits of
\* retryDelay done, and the kinds of the errors met.
NotConnecting ==
  [pc |-> "idle", retryCount |-> 0, fallbackCiphers |-> FALSE,
   cipher |-> [present |-> FALSE, list |-> <<>>],
   attempt |-> 0, k |-> 1, attemptedCiphers |-> <<>>, lastError |-> "",
   output |-> [attempt |-> 0, cipher |-> ""],
   connects |-> 0, waits |-> 0, kinds |-> {}]

NotCoerced == [name |-> "", raw |-> <<>>, value |-> Undef, calls |-> 0]

NoCall == [made |-> FALSE, output |-> <<>>, template |-> NoTemplate,
           options |-> NoOptions, result |-> NoResult, compileFailed |-> FALSE]

\* The inputs the caller draws from.
\* Two templates of different ids, and the three templates a caller gives
\* the one id "fix": one with a regex that does not compile, one without
\* states, and a well-formed one.
TwoTemplates ==
  {t \in Templates : t.id \in {"host", "global"} /\ t.variables = NoVariables}
    \cup {Template("fix", "fix", NoVariables, StatesOf(id)) : id \in {"bad", "empty", "first"}}
TwoOptions == {o \in AllOptions : ~o.coerceTypes}


\* The texts of at most n characters, carriage returns and line feeds among
\* them: the empty text, texts that end with a terminator, CR LF, a lone CR.
SplitChars == {"a", "\r", "\n"}
SplitTexts(n) == UNION {[1..k -> SplitChars] : k \in 0..n}
\* A template whose patterns match the empty line and the lines that start
\* with a, and emit a record on each.
SplitTemplates == {Template("blank", "blank", NoVariables, StatesOf("blank"))}

\* ------------------------------------------------------- TemplateValidator
\* The messages of one pattern p of the state named name: the regex when
\* new RegExp throws, then the transition when its to is a non-empty string
\* other than "self" and "end" that is not in stateNames.
PatternErrors(p, name, stateNames) ==
  (IF RegExpCompiles(p) THEN <<>>
   ELSE <<<<"Invalid regex in state ", name, SyntaxError(p).message>>>>)
  \o (IF /\ p.transition.present
         /\ p.transition.to # ""
         /\ p.transition.to \notin {"self", "end"}
         /\ p.transition.to \notin stateNames
        THEN <<<<"Transition from ", name, " to unknown state ", p.transition.to>>>>
        ELSE <<>>)

\* for (const p of state.patterns), from the j-th pattern on.
RECURSIVE PatternsErrors(_, _, _, _)
PatternsErrors(patterns, j, name, stateNames) ==
  IF j > Len(patterns) THEN <<>>
  ELSE PatternErrors(patterns[j], name, stateNames)
         \o PatternsErrors(patterns, j + 1, name, stateNames)

\* The messages of one state: its name, then either its empty patterns list
\* (continue) or its patterns.
StateErrors(state, stateNames) ==
  (IF state.name = "" THEN <<<<"State without a name">>>> ELSE <<>>)
  \o (IF state.patterns = <<>>
        THEN <<<<"State ", state.name, " has no patterns">>>>
        ELSE PatternsErrors(state.patterns, 1, state.name, stateNames))

\* for (const state of template.states || []), from the i-th state on.
RECURSIVE StatesErrors(_, _, _)
StatesErrors(states, i, stateNames) ==
  IF i > Len(states) THEN <<>>
  ELSE StateErrors(states[i], stateNames) \o StatesErrors(states, i + 1, stateNames)

\* TemplateValidator.validate(template): {valid: true}, or {valid: false,
\* errors}.  An absent id, name, vendor is "", an absent states list <<>>.
Validate(tpl) ==
  LET stateNames == {tpl.states[i].name : i \in 1..Len(tpl.states)}
      errs == (IF tpl.id = "" THEN <<<<"Missing template id">>>> ELSE <<>>)
              \o (IF tpl.name = "" THEN <<<<"Missing template name">>>> ELSE <<>>)
              \o (IF tpl.vendor = "" THEN <<<<"Missing vendor">>>> ELSE <<>>)
              \o (IF tpl.states = <<>>
                    THEN <<<<"Template must define at least one state">>>> ELSE <<>>)
              \o StatesErrors(tpl.states, 1, stateNames)
  IN [valid |-> errs = <<>>, errors |-> errs]

\* The templates a caller builds from states named start and body whose
\* patterns have no transition or one to body, to the empty string, to
\* "end", to "self", to the undefined state zz, or a regex that does not
\* compile; two states may carry one name.
CheckedPatternLists ==
  {<<StatePattern(ReA, {}, NoMap, <<Emit>>, NoTransition)>>,
   <<StatePattern(ReB, {}, NoMap, <<Emit>>, Transition("body", "match"))>>,
   <<StatePattern(ReB, {}, NoMap, <<>>, Transition("", "match"))>>,
   <<StatePattern(ReAny, {}, NoMap, <<Emit>>, Transition("end", "always")),
     StatePattern(ReA, {}, NoMap, <<Emit>>, NoTransition)>>,
   <<StatePattern(ReA, {}, NoMap, <<Emit>>, Transition("self", "undefined"))>>,
   <<StatePattern(ReB, {}, NoMap, <<Emit>>, Transition("zz", "match"))>>,
   <<StatePattern(ReBad, {}, NoMap, <<Emit>>, NoTransition)>>,
   <<>>}
CheckedStates == {State(nm, ps) : nm \in {"start", "body"}, ps \in CheckedPatternLists}
CheckedStateLists ==
  {<<>>} \cup {<<s>> : s \in CheckedStates}
         \cup {<<s, t>> : s \in CheckedStates, t \in CheckedStates}
CandidateTemplates ==
  {[id |-> "v", name |-> "v", vendor |-> "cisco", variables |-> NoVariables,
    states |-> sts] : sts \in CheckedStateLists}
\* Those of them TemplateValidator.validate accepts: the caller parses with
\* a template only after the Validator returned {valid: true}.
AcceptedTemplates == {t \in CandidateTemplates : Validate(t).valid}
\* The options of these calls: with and without the debug trace.
CheckedOptions == {o \in AllOptions : ~o.resetOnEmit /\ ~o.coerceTypes}

\* A template that declares x of type number, binds x from a group that may
\* not participate, and sets and appends x from that group, from literals
\* and from an action that gives neither.
NumberTemplates == {Template("number", "number", NumberVariables, StatesOf("number"))}

InputTemplates ==
  IF scope = "one" THEN Templates
  ELSE IF scope = "split" THEN SplitTemplates
  ELSE IF scope = "number" THEN NumberTemplates
  ELSE IF scope = "checked" THEN AcceptedTemplates
  ELSE TwoTemplates
InputOptions ==
  IF scope = "two" THEN TwoOptions
  ELSE IF scope = "checked" THEN CheckedOptions
  ELSE AllOptions
InputTexts ==
  IF scope = "one" THEN Texts(MaxLines)
  ELSE IF scope = "split" THEN SplitTexts(MaxText)
  ELSE IF scope = "number" THEN Texts(MaxLinesNumber)
  ELSE IF scope = "checked" THEN Texts(MaxLinesChecked)
  ELSE Texts(MaxLinesTwo)

\* The options of the running call with the other value of coerceTypes.
OtherOptions == [options EXCEPT !.coerceTypes = ~@]

\* The compiled template, state and pattern the running call works with
\* (the objects of the cache themselves: the call holds references).
Compiled == compiledCache[template.id]
CurrentPatterns == Compiled.states[currentStateName].patterns
Pattern == CurrentPatterns[matchedIdx + 1]
Line == lines[lineNo]

InitWith(sc, n) ==
  /\ compiledCache = EmptyObj
  /\ heap = <<>>
  /\ pc = "idle"
  /\ output = <<>>
  /\ template = NoTemplate
  /\ options = NoOptions
  /\ lines = <<>>
  /\ lineNo = 0
  /\ records = <<>>
  /\ working = EmptyObj
  /\ trace = <<>>
  /\ currentStateName = ""
  /\ linesProcessed = 0
  /\ matches = 0
  /\ errors = <<>>
  /\ matched = FALSE
  /\ matchedIdx = -1
  /\ groups = EmptyObj
  /\ actIdx = 0
  /\ result = NoResult
  /\ callsLeft = n
  /\ scope = sc
  /\ hist = NewHist
  /\ prev = NoCall
  /\ coerced = NotCoerced
  /\ validation = NotValidated
  /\ conn = NotConnecting
  /\ store = EmptyStore

\* A new engine on which the caller makes one call, of any input.
Init == InitWith("one", 1)
\* A new engine on which the caller makes two calls.
InitTwo == InitWith("two", 2)
\* A new engine on which the caller makes one call, of a text with any line
\* terminators.
InitSplit == InitWith("split", 1)
\* A new engine on which the caller makes one call, of a template with a
\* variable of type number.
InitNumber == InitWith("number", 1)
\* A new engine on which the caller makes one call, of a template the
\* Validator accepted.
InitChecked == InitWith("checked", 1)

\* parseOutput(text, tpl, opts) up to the line loop: getOrCompile, split,
\* the initial values of the locals.
Call(text, tpl, opts) ==
  /\ callsLeft' = callsLeft - 1
  /\ prev' = IF result.status = "none" THEN prev
             ELSE [made |-> TRUE, output |-> output, template |-> template,
                   options |-> options, result |-> result,
                   compileFailed |-> hist.compileFailed]
  /\ output' = text
  /\ template' = tpl
  /\ options' = opts
  /\ compiledCache' = GetOrCompile(compiledCache, tpl).cache
  /\ pc' = IF GetOrCompile(compiledCache, tpl).thrown THEN "idle" ELSE "line"
  /\ result' = IF GetOrCompile(compiledCache, tpl).thrown
                 THEN Thrown(GetOrCompile(compiledCache, tpl).error)
                 ELSE NoResult
  /\ lines' = IF GetOrCompile(compiledCache, tpl).thrown THEN <<>>
              ELSE SplitLines(text, <<>>)
  /\ lineNo' = 0
  /\ heap' = <<>>
  /\ records' = <<>>
  /\ working' = NewWorking(working)
  /\ trace' = <<>>
  /\ currentStateName' = IF GetOrCompile(compiledCache, tpl).thrown THEN ""
                         ELSE GetOrCompile(compiledCache, tpl).cache[tpl.id].startState
  /\ linesProcessed' = 0
  /\ matches' = 0
  /\ errors' = <<>>
  /\ matched' = FALSE
  /\ matchedIdx' = -1
  /\ groups' = EmptyObj
  /\ actIdx' = 0
  /\ hist' = [NewHist EXCEPT !.cacheBefore = compiledCache,
                              !.compileFailed = GetOrCompile(compiledCache, tpl).thrown]
  /\ UNCHANGED <<scope, aside>>

\* The head of the line loop and the pattern loop of one line: the for-of
\* ends when the lines are exhausted; otherwise linesProcessed is
\* incremented, the current state looked up (an unknown state is recorded
\* and ends the loop) and its patterns exec'd up to the first match.  A line
\* that matches no pattern gets its trace entry and the loop continues.
BeginLine ==
  /\ pc = "line"
  /\ IF lineNo = Len(lines)
       THEN /\ pc' = "return"
            /\ UNCHANGED <<compiledCache, lineNo, linesProcessed, errors, matched,
                           matchedIdx, groups, matches, trace, hist>>
     ELSE IF currentStateName \notin DOMAIN Compiled.states
       THEN /\ lineNo' = lineNo + 1
            /\ linesProcessed' = linesProcessed + 1
            /\ errors' = Append(errors, UnknownStateMessage(currentStateName))
            /\ pc' = "return"
            /\ hist' = [hist EXCEPT
                 !.faultAt = lineNo + 1,
                 !.stateAtLine = currentStateName,
                 !.matchesAtFault = matches,
                 !.recordsAtFault = [i \in 1..Len(records) |-> DeepObj(records[i], heap)],
                 !.errorsAtFault = errors]
            /\ UNCHANGED <<compiledCache, matched, matchedIdx, groups, matches, trace>>
     ELSE LET r == PatternLoop(CurrentPatterns, lines[lineNo + 1], 1, {})
          IN /\ lineNo' = lineNo + 1
             /\ linesProcessed' = linesProcessed + 1
             /\ compiledCache' =
                  [compiledCache EXCEPT
                     ![template.id].states[currentStateName].patterns = r.patterns]
             /\ matched' = r.matched
             /\ matchedIdx' = r.idx - 1
             /\ groups' = r.groups
             /\ matches' = CountMatch(matches, r.matched)
             /\ trace' = IF r.matched THEN trace
                         ELSE PushTrace(trace, options, lines[lineNo + 1],
                                        currentStateName, FALSE, -1)
             /\ pc' = IF r.matched THEN "bind" ELSE "line"
             /\ hist' = [hist EXCEPT !.before = CurrentPatterns,
                                     !.evaluated = r.evaluated,
                                     !.matchesBefore = matches,
                                     !.stateAtLine = currentStateName,
                                     !.matchedLines =
                                       IF r.matched THEN @ \cup {lineNo + 1} ELSE @,
                                     !.lastOp = ""]
             /\ UNCHANGED errors
  /\ UNCHANGED <<heap, output, template, options, lines, records, working,
                 currentStateName, actIdx, result, callsLeft, scope, prev, aside>>

\* The bindings of the named groups of the match.  A coercion that throws
\* ends the call with the exception.
Bind ==
  /\ pc = "bind"
  /\ LET names == GroupNames(Pattern.regex.re)
         st == BindGroups(names, 1, groups, Pattern.map, options,
                          VariableIndex(template),
                          [thrown |-> FALSE, working |-> working, heap |-> heap])
         bound == {VarNameOf(Pattern.map, names[i]) : i \in 1..Len(names)}
     IN IF st.thrown
          THEN /\ pc' = "idle"
               /\ result' = Thrown(TypeError)
               /\ UNCHANGED <<working, heap, actIdx, hist>>
          ELSE /\ working' = st.working
               /\ heap' = st.heap
               /\ actIdx' = 1
               /\ pc' = IF Len(Pattern.actions) = 0 THEN "transition" ELSE "action"
               /\ hist' = [hist EXCEPT
                    !.live = @ \cup bound,
                    !.touched = @ \cup bound,
                    !.other =
                      LET o == BindGroups(names, 1, groups, Pattern.map, OtherOptions,
                                          VariableIndex(template),
                                          [thrown |-> @.thrown, working |-> @.working,
                                           heap |-> @.heap])
                      IN [@ EXCEPT !.thrown = o.thrown, !.working = o.working,
                                   !.heap = o.heap]]
               /\ UNCHANGED result
  /\ UNCHANGED <<compiledCache, output, template, options, lines, lineNo, records,
                 trace, currentStateName, linesProcessed, matches, errors, matched,
                 matchedIdx, groups, callsLeft, scope, prev, aside>>

\* The next action of the matched pattern.
ExecAction ==
  /\ pc = "action"
  /\ LET a == Pattern.actions[actIdx]
         st == ApplyAction(a, groups, options, VariableIndex(template),
                           [working |-> working, heap |-> heap, records |-> records])
         assigns == a.type \in {"set", "append"} /\ a.variable # ""
         clears == a.type = "clear" /\ a.variable # ""
         emits == a.type = "emit"
     IN /\ working' = st.working
        /\ heap' = st.heap
        /\ records' = st.records
        /\ hist' = [hist EXCEPT
             !.lastOp = a.type,
             !.lastVar = a.variable,
             !.workingBefore = working,
             !.heapBefore = heap,
             !.snapshots = IF emits THEN Append(@, DeepObj(working, heap)) ELSE @,
             !.liveAtEmit = IF emits THEN Append(@, hist.live) ELSE @,
             !.touchedAtEmit = IF emits THEN Append(@, hist.touched) ELSE @,
             !.live = IF assigns THEN @ \cup {a.variable}
                      ELSE IF clears THEN @ \ {a.variable}
                      ELSE IF emits /\ options.resetOnEmit THEN {}
                      ELSE @,
             !.touched = IF assigns THEN @ \cup {a.variable}
                         ELSE IF emits THEN {}
                         ELSE @,
             !.other =
               IF @.thrown THEN @
               ELSE LET o == ApplyAction(a, groups, OtherOptions, VariableIndex(template),
                                         [working |-> @.working, heap |-> @.heap,
                                          records |-> @.records])
                    IN [@ EXCEPT !.working = o.working, !.heap = o.heap,
                                 !.records = o.records]]
  /\ actIdx' = actIdx + 1
  /\ pc' = IF actIdx = Len(Pattern.actions) THEN "transition" ELSE "action"
  /\ UNCHANGED <<compiledCache, output, template, options, lines, lineNo, trace,
                 currentStateName, linesProcessed, matches, errors, matched,
                 matchedIdx, groups, result, callsLeft, scope, prev, aside>>

\* The transition of the matched pattern, the trace entry of the line, and
\* the end of the loop body: the break of "end", like the break after any
\* other match, leaves the pattern loop only, so the for-of over the lines
\* goes on with its next line.
ApplyTransitionStep ==
  /\ pc = "transition"
  /\ LET t == Pattern.transition
         r == ApplyTransition(t, currentStateName, linesProcessed, Len(lines))
         toEnd == TransitionApplies(t) /\ t.to = "end"
         toUnknown == /\ TransitionApplies(t)
                      /\ t.to \notin {"self", "end"}
                      /\ t.to \notin DOMAIN Compiled.states
     IN /\ currentStateName' = r.state
        /\ linesProcessed' = r.linesProcessed
        /\ trace' = PushTrace(trace, options, Line, r.state, matched, matchedIdx)
        /\ hist' = [hist EXCEPT
             !.endAt = IF toEnd /\ @ = 0 THEN lineNo ELSE @,
             !.unknownAt = IF toUnknown /\ @ = 0 THEN lineNo ELSE @,
             !.unknownTo = IF toUnknown /\ hist.unknownAt = 0 THEN t.to ELSE @,
             !.recordsAtUnknown =
               IF toUnknown /\ hist.unknownAt = 0
                 THEN [i \in 1..Len(records) |-> DeepObj(records[i], heap)]
                 ELSE @]
  /\ pc' = "line"
  /\ UNCHANGED <<compiledCache, heap, output, template, options, lines, lineNo,
                 records, working, matches, errors, matched, matchedIdx, groups,
                 actIdx, result, callsLeft, scope, prev, aside>>

\* return {templateId, templateName, records, meta, ...trace}.
Return ==
  /\ pc = "return"
  /\ result' = ParseResult(template, records, heap, linesProcessed, matches,
                           errors, options, trace)
  /\ pc' = "idle"
  /\ UNCHANGED <<compiledCache, heap, frame, callsLeft, scope, hist, prev, aside>>

\* The caller makes a call when none is running.
CallAny ==
  /\ pc = "idle"
  /\ callsLeft > 0
  /\ \E text \in InputTexts, tpl \in InputTemplates, opts \in InputOptions :
       Call(text, tpl, opts)

Next ==
  \/ CallAny
  \/ BeginLine
  \/ Bind
  \/ ExecAction
  \/ ApplyTransitionStep
  \/ Return

Spec == Init /\ [][Next]_vars
SpecTwo == InitTwo /\ [][Next]_vars
SpecSplit == InitSplit /\ [][Next]_vars
SpecNumber == InitNumber /\ [][Next]_vars
SpecChecked == InitChecked /\ [][Next]_vars

\* ------------------------------------------------- coerceValue on its own
MaxRaw == 3
MaxCoercions == 2

\* The raw strings: digits, a blank and a letter, at most MaxRaw characters.
RawStrings == UNION {[1..k -> {"0", "1", " ", "a"}] : k \in 0..MaxRaw}

\* coerceValue(name, raw, index) of a raw string for a variable of a template
\* whose variables are x: number and w: untyped.
CoerceFirst ==
  /\ coerced.calls = 0
  /\ \E nm \in {"x", "w"}, s \in RawStrings :
       coerced' = [name |-> nm, raw |-> s, calls |-> 1,
                   value |-> CoerceValue(nm, StrV(s),
                               VariableIndex(Template("t", "t", NumberVariables, <<>>))).v]
  /\ UNCHANGED <<engine, validation, conn, store>>

\* coerceValue applied to the value it returned.
CoerceAgain ==
  /\ coerced.calls \in 1..(MaxCoercions - 1)
  /\ coerced' = [coerced EXCEPT
       !.calls = @ + 1,
       !.value = CoerceValue(coerced.name, coerced.value,
                   VariableIndex(Template("t", "t", NumberVariables, <<>>))).v]
  /\ UNCHANGED <<engine, validation, conn, store>>

NextCoerce == CoerceFirst \/ CoerceAgain

\* An engine whose coerceValue is applied to one raw string, repeatedly.
SpecCoerce == InitWith("one", 0) /\ [][NextCoerce]_vars

\* --------------------------------------------- TemplateValidator, callers
\* The templates given to the validator.
MaxStates == 2

ValidatorPatterns ==
  {StatePattern(ReA, {}, NoMap, <<>>, t) :
     t \in {NoTransition} \cup {Transition(to, "match") : to \in {"end", "s", "zz", ""}}}
    \cup {StatePattern(ReBad, {}, NoMap, <<>>, t) :
            t \in {NoTransition, Transition("zz", "match")}}

ValidatorPatternLists ==
  {<<>>} \cup {<<p>> : p \in ValidatorPatterns}
         \cup {<<StatePattern(ReBad, {}, NoMap, <<>>, Transition("zz", "match")), q>> :
                 q \in {StatePattern(ReBad, {}, NoMap, <<>>, Transition("zz", "match")),
                        StatePattern(ReA, {}, NoMap, <<>>, Transition("self", "match"))}}

ValidatorStates ==
  {State(nm, ps) : nm \in {"", "s", "t"}, ps \in ValidatorPatternLists}

ValidatorTemplates ==
  {[id |-> id, name |-> nm, vendor |-> vendor, variables |-> <<>>, states |-> sts] :
     id \in {"", "i"}, nm \in {"", "n"}, vendor \in {"", "cisco"},
     sts \in UNION {[1..k -> ValidatorStates] : k \in 0..MaxStates}}

\* A caller validates one template.
ValidateAny ==
  /\ ~validation.done
  /\ \E tpl \in ValidatorTemplates :
       validation' = [done |-> TRUE, template |-> tpl,
                      valid |-> Validate(tpl).valid,
                      errors |-> IF Validate(tpl).valid THEN <<>>
                                 ELSE Validate(tpl).errors]
  /\ UNCHANGED <<engine, coerced, conn, store>>

NextValidate == ValidateAny

SpecValidate == InitWith("one", 0) /\ [][NextValidate]_vars

\* ------------------------------------------------- executeCommandWithRetry
MaxRetry == 3

\* options.algorithms?.cipher: absent, or a list of cipher names.
CipherOptions ==
  {[present |-> FALSE, list |-> <<>>]}
    \cup {[present |-> TRUE, list |-> l] : l \in {<<"aes128-ctr">>, <<"aes128-ctr", "3des-cbc">>}}

\* effectiveCiphers that does not look at fallbackCiphers: the whole list.
EffectiveCiphers_AlwaysAll(c) ==
  IF c.cipher.present THEN c.cipher.list ELSE <<"aes256-ctr">>

\* effectiveCiphers: the whole list (or the default) with fallbackCiphers,
\* its first element (or the default) without.
EffectiveCiphers(c) ==
  IF c.fallbackCiphers
    THEN IF c.cipher.present THEN c.cipher.list ELSE <<"aes256-ctr">>
    ELSE IF c.cipher.present /\ c.cipher.list # <<>>
           THEN <<c.cipher.list[1]>> ELSE <<"aes256-ctr">>

\* What connectAndExecuteCommand does: it returns, or throws an error whose
\* message holds 'no matching cipher found', or 'handshake failed', or
\* neither.
ConnectOutcomes == {"ok", "no matching cipher found", "handshake failed", "ECONNREFUSED"}

IsCipherIssue(message) == message \in {"no matching cipher found", "handshake failed"}

\* executeCommandWithRetry(options, command, retryCount, retryDelay) up to
\* the for loop over the attempts.
RetryCall ==
  /\ conn.pc = "idle"
  /\ \E rc \in 1..MaxRetry, fb \in BOOLEAN, ci \in CipherOptions :
       conn' = [NotConnecting EXCEPT !.pc = "attempt", !.retryCount = rc,
                                     !.fallbackCiphers = fb, !.cipher = ci]
  /\ UNCHANGED <<engine, coerced, validation, store>>

\* The test of the for loop over the attempts, and the throw after it.
AttemptLoop ==
  /\ conn.pc = "attempt"
  /\ conn' = IF conn.attempt < conn.retryCount
               THEN [conn EXCEPT !.pc = "cipher", !.k = 1]
               ELSE [conn EXCEPT !.pc = "thrown"]
  /\ UNCHANGED <<engine, coerced, validation, store>>

\* One turn of the for loop over effectiveCiphers: the end of the loop
\* (attempt++); a cipher already in attemptedCiphers (continue); or the
\* cipher is recorded and connectAndExecuteCommand called: its result is
\* returned, a cipher issue goes on with the next cipher, any other error
\* waits retryDelay and leaves the loop (break).
TryCipher ==
  /\ conn.pc = "cipher"
  /\ IF conn.k > Len(EffectiveCiphers(conn))
       THEN conn' = [conn EXCEPT !.pc = "attempt", !.attempt = @ + 1]
     ELSE IF \E i \in 1..Len(conn.attemptedCiphers) :
               conn.attemptedCiphers[i] = EffectiveCiphers(conn)[conn.k]
       THEN conn' = [conn EXCEPT !.k = @ + 1]
     ELSE \E outcome \in ConnectOutcomes :
            LET tried == [conn EXCEPT
                  !.attemptedCiphers = Append(@, EffectiveCiphers(conn)[conn.k]),
                  !.connects = @ + 1]
            IN conn' =
                 IF outcome = "ok"
                   THEN [tried EXCEPT !.pc = "returned",
                           !.output = [attempt |-> conn.attempt + 1,
                                       cipher |-> EffectiveCiphers(conn)[conn.k]]]
                 ELSE IF IsCipherIssue(outcome)
                   THEN [tried EXCEPT !.lastError = outcome, !.k = @ + 1,
                                      !.kinds = @ \cup {outcome}]
                 ELSE [tried EXCEPT !.lastError = outcome, !.waits = @ + 1,
                                    !.kinds = @ \cup {outcome},
                                    !.pc = "attempt", !.attempt = @ + 1]
  /\ UNCHANGED <<engine, coerced, validation, store>>

NextRetry == RetryCall \/ AttemptLoop \/ TryCipher

SpecRetry == InitWith("one", 0) /\ [][NextRetry]_vars

\* -------------------------------------------------------- TemplateManager
MaxUpserts == 2

\* template.metadata: absent, or {created, updated} (0: no created).
NoMetadata == [present |-> FALSE, created |-> 0, updated |-> 0]

StoredTemplate(id, name, vendor, states, metadata) ==
  [id |-> id, name |-> name, vendor |-> vendor, variables |-> <<>>,
   states |-> states, metadata |-> metadata]

\* The templates/*.json files shipped with the node: one the validator
\* accepts and one it rejects (no vendor).
BundledTemplates ==
  {StoredTemplate("bundled", "bundled", "cisco", StatesOf("host"), NoMetadata),
   StoredTemplate("broken", "broken", "", StatesOf("host"), NoMetadata)}

\* The templates a caller upserts: under the id of a bundled template or
\* another id, accepted by the validator or not (no name), new or carrying
\* the metadata of an earlier version.
UserTemplates ==
  {StoredTemplate(id, nm, "cisco", StatesOf("first"), md) :
     id \in {"bundled", "user"}, nm \in {"", "mine"},
     md \in {NoMetadata, [present |-> TRUE, created |-> 0, updated |-> 1]}}

ManagerIds == {"bundled", "broken", "user"}

\* init(): seedBundledTemplates writes every bundled template the validator
\* accepts whose <id>.json is not in the storage directory.
Seed(files) ==
  LET seeded == {t \in BundledTemplates : Validate(t).valid /\ t.id \notin DOMAIN files}
  IN [id \in DOMAIN files \cup {t.id : t \in seeded} |->
        IF id \in DOMAIN files THEN files[id]
        ELSE CHOOSE t \in seeded : t.id = id]

\* init().
ManagerInit ==
  /\ store' = [store EXCEPT !.files = Seed(@),
                            !.last = [op |-> "init", id |-> "", thrown |-> FALSE,
                                      found |-> {}, arg |-> {}, at |-> store.now]]
  /\ UNCHANGED <<engine, coerced, validation, conn>>

\* list(): init, then the templates of all the files.
ManagerList ==
  /\ store' = [store EXCEPT
       !.files = Seed(@),
       !.last = [op |-> "list", id |-> "", thrown |-> FALSE,
                 found |-> {Seed(store.files)[id] : id \in DOMAIN Seed(store.files)},
                 arg |-> {}, at |-> store.now]]
  /\ UNCHANGED <<engine, coerced, validation, conn>>

\* get(id): init, then the template of <id>.json, or undefined (found = {}).
ManagerGet ==
  /\ \E id \in ManagerIds :
       store' = [store EXCEPT
         !.files = Seed(@),
         !.last = [op |-> "get", id |-> id, thrown |-> FALSE,
                   found |-> IF id \in DOMAIN Seed(store.files)
                               THEN {Seed(store.files)[id]} ELSE {},
                   arg |-> {}, at |-> store.now]]
  /\ UNCHANGED <<engine, coerced, validation, conn>>

\* The metadata of an upsert that leaves the updated time of a template that
\* carries metadata as it is.
Stamped_KeepsUpdated(md, now) ==
  [present |-> TRUE,
   created |-> IF md.present /\ md.created # 0 THEN md.created ELSE now,
   updated |-> IF md.present THEN md.updated ELSE now]

\* The metadata upsert gives the template at time now.
Stamped(md, now) ==
  [present |-> TRUE,
   created |-> IF md.present /\ md.created # 0 THEN md.created ELSE now,
   updated |-> now]

\* upsert(template): init, then the validation (an invalid template
\* throws), the metadata, and the file written.
ManagerUpsert ==
  /\ store.now <= MaxUpserts
  /\ \E t \in UserTemplates :
       store' =
         IF ~Validate(t).valid
           THEN [store EXCEPT
                   !.files = Seed(@),
                   !.last = [op |-> "upsert", id |-> t.id, thrown |-> TRUE, found |-> {},
                             arg |-> {t}, at |-> store.now]]
           ELSE [store EXCEPT
                   !.files = ObjSet(Seed(@), t.id,
                               [t EXCEPT !.metadata = Stamped(@, store.now)]),
                   !.now = @ + 1,
                   !.removed = @ \ {t.id},
                   !.upserted = ObjSet(@, t.id,
                                  [t EXCEPT !.metadata = Stamped(@, store.now)]),
                   !.last = [op |-> "upsert", id |-> t.id, thrown |-> FALSE,
                             found |-> {[t EXCEPT !.metadata = Stamped(@, store.now)]},
                             arg |-> {t}, at |-> store.now]]
  /\ UNCHANGED <<engine, coerced, validation, conn>>

\* remove(id): init, then the file removed when it exists.
ManagerRemove ==
  /\ \E id \in ManagerIds :
       store' = [store EXCEPT
         !.files = ObjDelete(Seed(@), id),
         !.removed = @ \cup {id},
         !.last = [op |-> "remove", id |-> id, thrown |-> FALSE, found |-> {},
                   arg |-> {}, at |-> store.now]]
  /\ UNCHANGED <<engine, coerced, validation, conn>>

NextManager ==
  \/ ManagerInit
  \/ ManagerList
  \/ ManagerGet
  \/ ManagerUpsert
  \/ ManagerRemove

SpecManager == InitWith("one", 0) /\ [][NextManager]_vars

\* ================================================================== claims
Min(S) == CHOOSE x \in S : \A y \in S : x <= y

\* The patterns of the current state whose regex, as it stood before the
\* line's execs, matches the line being processed.
MatchingBefore ==
  {i \in 1..Len(hist.before) : RegExpExec(hist.before[i].regex, Line).ok}

\* A pattern matched on the line being processed and its steps are running.
InMatch == pc \in {"bind", "action", "transition"}

\* C1 (as claimed): once a pattern whose transition.to is "end" has matched
\* on a line, the line loop never reaches a later line: no pattern is
\* evaluated and no binding, action or emit runs after that line.
C1_EndStopsTheLoop == hist.endAt # 0 => lineNo = hist.endAt

\* C2 (as claimed): a parse in which an "end" transition fired returns
\* meta.linesProcessed equal to the number of lines of the split input.
C2_EndLinesProcessed ==
  (pc = "idle" /\ result.status = "returned" /\ hist.endAt # 0)
    => result.meta.linesProcessed = Len(lines)

\* C3 (as claimed): whenever a matched pattern's transition names a state
\* that is not in the compiled table, on whichever line, the call returns
\* normally with the unknown-state message of that name in meta.errors and
\* with the records emitted up to and including that pattern's actions.
C3_UnknownStateReported ==
  (pc = "idle" /\ hist.unknownAt # 0)
    => /\ result.status = "returned"
       /\ result.meta.errors.defined
       /\ \E i \in 1..Len(result.meta.errors.list) :
            result.meta.errors.list[i] = UnknownStateMessage(hist.unknownTo)
       /\ result.records = hist.recordsAtUnknown

\* C3 (amended): the same, when the transition fires on a line that is not
\* the last line of the input (the fault is detected by the state lookup of
\* the next line).
C3_UnknownStateReportedBeforeLastLine ==
  (pc = "idle" /\ hist.unknownAt # 0 /\ hist.unknownAt < Len(lines))
    => /\ result.status = "returned"
       /\ result.meta.errors.defined
       /\ \E i \in 1..Len(result.meta.errors.list) :
            result.meta.errors.list[i] = UnknownStateMessage(hist.unknownTo)
       /\ result.records = hist.recordsAtUnknown

\* C3 witness: a call returned after a transition to an unknown state fired
\* on a line before the last, with records emitted before the fault.
C3_Witness ==
  /\ pc = "idle"
  /\ result.status = "returned"
  /\ hist.unknownAt # 0
  /\ hist.unknownAt < Len(lines)
  /\ Len(result.records) >= 2

\* C4: first-match-wins.  The pattern whose bindings, actions and
\* transition are applied to a line is the lowest-index pattern of the
\* current state whose regex matches the line; exec was called on the
\* patterns up to it and on no later one; matches went up by exactly one.
\* On a line that no pattern matches, matches is unchanged.
C4_FirstMatchWins ==
  /\ InMatch =>
       /\ MatchingBefore # {}
       /\ matchedIdx + 1 = Min(MatchingBefore)
       /\ hist.evaluated = 1..(matchedIdx + 1)
       /\ matches = hist.matchesBefore + 1
  /\ (pc = "line" /\ lineNo > 0 /\ ~matched) =>
       /\ MatchingBefore = {}
       /\ matches = hist.matchesBefore

\* C4 witness: a pattern is applied to a line that a later pattern of the
\* same state matches too.
C4_Witness ==
  /\ pc = "action"
  /\ \E j \in MatchingBefore : j > matchedIdx + 1
  /\ matchedIdx + 1 > 1

\* C5 (as claimed): the content of every record pushed so far, the elements
\* of its list values included, is the content of the working set at the
\* moment of its emit.
C5_RecordsAreSnapshots ==
  \A i \in 1..Len(records) : DeepObj(records[i], heap) = hist.snapshots[i]

\* C6 (as claimed): a second call with the text, template and options of
\* the first returns (or throws) what the first did.
C6_Determinism ==
  (/\ pc = "idle"
   /\ prev.made
   /\ result.status # "none"
   /\ prev.output = output
   /\ prev.template = template
   /\ prev.options = options)
    => result = prev.result

\* C7: filldown persistence.  With resetOnEmit false, every variable bound,
\* set or appended and not cleared since is in the working set, and was in
\* every record at its emit; an emit leaves the working set as it was.
C7_Filldown ==
  ~options.resetOnEmit =>
    /\ hist.live \subseteq DOMAIN working
    /\ \A i \in 1..Len(records) : hist.liveAtEmit[i] \subseteq DOMAIN records[i]
    /\ hist.lastOp = "emit" => working = hist.workingBefore

\* C7 witness: with resetOnEmit false, a record emitted on line 2 by a
\* pattern without bindings holds the variable h bound on line 1.
C7_Witness ==
  /\ ~options.resetOnEmit
  /\ template.id = "two"
  /\ lineNo = 2
  /\ hist.lastOp = "emit"
  /\ matchedIdx = 0
  /\ Len(records) = 1
  /\ "h" \in DOMAIN records[1]
  /\ records[1]["h"] = StrV(<<"1">>)

\* C8: reset isolation.  With resetOnEmit true, the working set is empty
\* right after every emit, and every record holds only variables bound, set
\* or appended since the emit before it (none, when nothing was).
C8_ResetIsolation ==
  options.resetOnEmit =>
    /\ hist.lastOp = "emit" => working = EmptyObj
    /\ \A i \in 1..Len(records) : DOMAIN records[i] \subseteq hist.touchedAtEmit[i]

\* C8 witness: with resetOnEmit true, the second of two consecutive emits
\* pushed a record without variables after a first record with variables.
C8_Witness ==
  /\ options.resetOnEmit
  /\ hist.lastOp = "emit"
  /\ Len(records) >= 2
  /\ hist.touchedAtEmit[Len(records)] = {}
  /\ DOMAIN records[Len(records)] = {}
  /\ DOMAIN records[Len(records) - 1] # {}

\* C9 (as claimed): after an append on a variable, whatever the options,
\* the variable is a list; it has one element when the variable was absent,
\* the elements it had and one more when it was a list, and [v0, v1] when
\* it was a scalar v0; and no element of it is itself a list.
C9_AppendUpgradeLaw ==
  (hist.lastOp = "append" /\ hist.lastVar # "") =>
    LET cur == ObjGet(hist.workingBefore, hist.lastVar)
        now == working[hist.lastVar]
        arr == heap[now.n]
    IN /\ IsArray(now)
       /\ IF cur = Undef THEN Len(arr) = 1
          ELSE IF IsArray(cur)
            THEN now = cur /\ SubSeq(arr, 1, Len(arr) - 1) = hist.heapBefore[cur.n]
          ELSE Len(arr) = 2 /\ arr[1] = cur
       /\ \A i \in 1..Len(arr) : ~IsArray(arr[i])

\* C10 (as claimed): a call whose template compiled never throws: an
\* exception is raised by getOrCompile alone, before the first line.
C10_NoThrowInLineLoop == result.status = "thrown" => lineNo = 0

\* The call that ended last threw out of getOrCompile (before the first
\* line) on a pattern whose regex does not compile.
CompileFailedOnPattern ==
  /\ pc = "idle"
  /\ result.status = "thrown"
  /\ lineNo = 0
  /\ InvalidPatterns(template.states) # {}

\* C11 (as claimed): when a pattern's regex does not compile, parseOutput
\* fails with an InvalidPatternError that carries the name of the offending
\* state, the index of the pattern in that state and the message of the
\* regex engine.
C11_InvalidPatternError ==
  CompileFailedOnPattern =>
    /\ result.error.name = "InvalidPatternError"
    /\ result.error.state = FirstInvalid(template.states).state
    /\ result.error.index = FirstInvalid(template.states).index
    /\ result.error.message = SyntaxError(FirstInvalid(template.states).pattern).message

\* The states table of a Compiled Template without the lastIndex of its
\* RegExp objects (which a call moves).
Sources(states) ==
  [nm \in DOMAIN states |->
     [j \in 1..Len(states[nm].patterns) |->
        [states[nm].patterns[j] EXCEPT !.regex.lastIndex = 0]]]

\* The running (or last) call was given a template that compiles, under
\* the id of the template whose compilation failed in the call before it.
CorrectedAfterFailure ==
  /\ prev.made /\ prev.compileFailed
  /\ prev.template.id = template.id
  /\ InvalidPatterns(template.states) = {} /\ template.states # <<>>
  /\ (pc # "idle" \/ result.status # "none")

\* C12: a compilation that fails leaves the compiled cache as it was, with
\* no entry for the template's id; a later parseOutput with a template of
\* the same id that compiles does not fail, stores that template and runs
\* on its states.
C12_FailedCompileNotCached ==
  /\ hist.compileFailed =>
       /\ compiledCache = hist.cacheBefore
       /\ template.id \notin DOMAIN compiledCache
       /\ result.status = "thrown" /\ pc = "idle"
  /\ CorrectedAfterFailure =>
       /\ ~hist.compileFailed
       /\ template.id \in DOMAIN compiledCache
       /\ Compiled.template = template
       /\ Compiled.startState = template.states[1].name
       /\ Sources(Compiled.states) =
            [nm \in DOMAIN CompileStates(template.states) |->
               CompileStates(template.states)[nm].patterns]

\* A call that failed on a regex was followed by a call with a corrected
\* template of the same id, which returned records.
C12_Witness ==
  /\ CorrectedAfterFailure
  /\ InvalidPatterns(prev.template.states) # {}
  /\ result.status = "returned" /\ Len(result.records) > 0

\* The last call returned after the for-of ran out of lines, no "end"
\* transition having fired and no transition having named an unknown state.
ExhaustedInput ==
  /\ pc = "idle"
  /\ result.status = "returned"
  /\ hist.endAt = 0
  /\ hist.unknownAt = 0

\* C13: a parse that ends by exhausting the input returns one record per
\* executed emit, in the order of execution (the i-th record has the
\* variables, and the values other than arrays, that the working set had at
\* the i-th emit); meta.matches is the number of lines on which a pattern of
\* the current state matched; meta.linesProcessed is the number of lines of
\* the split input.
C13_ExhaustedInputCounts ==
  ExhaustedInput =>
    /\ Len(result.records) = Len(hist.snapshots)
    /\ \A i \in 1..Len(result.records) :
         /\ DOMAIN result.records[i] = DOMAIN hist.snapshots[i]
         /\ \A x \in DOMAIN result.records[i] :
              hist.snapshots[i][x].k # "arr" =>
                result.records[i][x] = hist.snapshots[i][x]
    /\ result.meta.matches = Cardinality(hist.matchedLines)
    /\ result.meta.linesProcessed = Len(SplitLines(output, <<>>))
    /\ ~result.meta.errors.defined

\* Three lines, one of them matching no pattern, and two records that differ.
C13_Witness ==
  /\ ExhaustedInput
  /\ result.meta.linesProcessed = 3
  /\ result.meta.matches = 2
  /\ Len(result.records) = 2
  /\ result.records[1] # result.records[2]

\* C14 (as claimed): with debug the result carries a trace of exactly one
\* entry per input line, in input order, each with the line, a state of the
\* template, whether a pattern matched and the index of that pattern (-1
\* when none did), however the parse ended; without debug the result has no
\* trace.
C14_TraceOnePerLine ==
  (pc = "idle" /\ result.status = "returned") =>
    IF options.debug
      THEN /\ result.trace.present
           /\ Len(result.trace.entries) = Len(SplitLines(output, <<>>))
           /\ \A i \in 1..Len(result.trace.entries) :
                /\ result.trace.entries[i].line = SplitLines(output, <<>>)[i]
                /\ result.trace.entries[i].matched = (i \in hist.matchedLines)
                /\ result.trace.entries[i].matched =
                     (result.trace.entries[i].matchedIdx >= 0)
      ELSE ~result.trace.present

\* No variable of the template is declared with type number or list.
NoCoercedVariable ==
  \A i \in 1..Len(template.variables) : template.variables[i].type \notin {"number", "list"}

\* C15 (as claimed): for a template without number or list variables, the
\* records parseOutput returns with coerceTypes = true are those it returns
\* with coerceTypes = false, for the same text and the other options.
C15_CoerceOnlyDeclared ==
  (pc = "idle" /\ result.status = "returned" /\ NoCoercedVariable) =>
    /\ ~hist.other.thrown
    /\ result.records =
         [i \in 1..Len(hist.other.records) |-> DeepObj(hist.other.records[i], hist.other.heap)]

\* A numeric string: a non-empty run of decimal digits, blanks around it
\* allowed.
IsNumericString(s) == Trim(s) # <<>> /\ \A i \in 1..Len(Trim(s)) : Trim(s)[i] \in Digits

\* C16 (as claimed): for a variable of type number, coercing a numeric
\* string gives its numeric value and coercing that result gives the same
\* value; coercing a string that is not numeric gives the string itself,
\* the first time and when the coercion is applied to the result.
C16_NumberCoercionIdempotent ==
  (coerced.calls >= 1 /\ coerced.name = "x") =>
    IF IsNumericString(coerced.raw)
      THEN coerced.value = NumV(DecimalValue(Trim(coerced.raw), 0))
      ELSE coerced.value = StrV(coerced.raw)

\* C20 (as claimed): from the line at whose start the current state is
\* missing from the state table, parseOutput runs no pattern and no action
\* (it goes straight to its return, at that line); matches and records are
\* those from before the line, one error message was appended and is the
\* only one, and linesProcessed, in the locals and in the result's meta, is
\* the 1-based index of that line.
C20_FaultStopsAtOnce ==
  hist.faultAt # 0 =>
    /\ pc \in {"return", "idle"}
    /\ lineNo = hist.faultAt
    /\ matches = hist.matchesAtFault
    /\ [i \in 1..Len(records) |-> DeepObj(records[i], heap)] = hist.recordsAtFault
    /\ errors = Append(hist.errorsAtFault, UnknownStateMessage(currentStateName))
    /\ Len(errors) = 1
    /\ linesProcessed = hist.faultAt
    /\ pc = "idle" =>
         /\ result.status = "returned"
         /\ result.records = hist.recordsAtFault
         /\ result.meta.matches = hist.matchesAtFault
         /\ result.meta.linesProcessed = hist.faultAt
         /\ result.meta.errors.defined /\ Len(result.meta.errors.list) = 1

\* The violations of a template, counted from the conditions of the claim:
\* a missing id, name, vendor; no state; a state without a name; a state
\* without patterns; a regex that does not compile; a transition target
\* other than "self" and "end" that names no state of the template.
Violations(tpl) ==
  LET names == {tpl.states[i].name : i \in 1..Len(tpl.states)}
      slots == UNION {{<<i, j>> : j \in 1..Len(tpl.states[i].patterns)} :
                        i \in 1..Len(tpl.states)}
      pat(ij) == tpl.states[ij[1]].patterns[ij[2]]
  IN Cardinality({f \in {"id", "name", "vendor"} : tpl[f] = ""})
     + (IF tpl.states = <<>> THEN 1 ELSE 0)
     + Cardinality({i \in 1..Len(tpl.states) : tpl.states[i].name = ""})
     + Cardinality({i \in 1..Len(tpl.states) : tpl.states[i].patterns = <<>>})
     + Cardinality({ij \in slots : ~RegExpCompiles(pat(ij))})
     + Cardinality({ij \in slots : /\ pat(ij).transition.present
                                   /\ pat(ij).transition.to \notin {"self", "end"}
                                   /\ pat(ij).transition.to \notin names})

\* C17 (as claimed): validate returns valid: true exactly when the template
\* has no violation; otherwise valid: false with a non-empty errors list of
\* one message per violation.
C17_ValidatorExact ==
  validation.done =>
    /\ validation.valid <=> (Violations(validation.template) = 0)
    /\ ~validation.valid =>
         /\ validation.errors # <<>>
         /\ Len(validation.errors) = Violations(validation.template)

\* C18 (as claimed): when every connection attempt failed with an error
\* that is not a cipher issue, executeCommandWithRetry has made retryCount
\* connection attempts and waited retryDelay after each of them when it
\* throws "Failed to connect after retryCount attempts", with or without
\* fallbackCiphers; and when it returns, the output is that of the attempt
\* that succeeded, the failures before it having been waited for.
C18_RetryCountAttempts ==
  /\ (conn.pc = "thrown" /\ conn.kinds \subseteq {"ECONNREFUSED"}) =>
       /\ conn.connects = conn.retryCount
       /\ conn.waits = conn.retryCount
  /\ (conn.pc = "returned" /\ conn.kinds \subseteq {"ECONNREFUSED"}) =>
       /\ conn.output.attempt = conn.connects
       /\ conn.waits = conn.connects - 1
       /\ conn.connects <= conn.retryCount

\* C19 (as claimed): once remove(id) has completed and until an upsert of
\* a template with that id, get(id) returns undefined and list() returns no
\* template with that id, for the id of a bundled template as for any other.
C19_RemoveIsEffective ==
  \A id \in store.removed :
    /\ (store.last.op = "get" /\ store.last.id = id) => store.last.found = {}
    /\ store.last.op = "list" => \A t \in store.last.found : t.id # id

\* The transition of the pattern that matched the line processed last, as
\* the template compiled for the call declares it.
LastTransition == hist.before[matchedIdx + 1].transition

\* C21: the first line is looked up in the start state, the name of the
\* first state of the compiled template; while the steps of a matched line
\* run, the current state is the one the line was looked up in; after a
\* line, it is the target of the matched pattern's transition when that
\* names a state (neither "self" nor "end"), and otherwise, no pattern
\* having matched or the pattern having no transition, the state the
\* line was looked up in.
C21_StateChangesByTransitionOnly ==
  /\ (pc = "line" /\ lineNo = 0) =>
       currentStateName = Compiled.template.states[1].name
  /\ InMatch => currentStateName = hist.stateAtLine
  /\ (pc \in {"line", "return"} /\ lineNo >= 1) =>
       currentStateName =
         IF /\ hist.faultAt = 0
            /\ matched
            /\ LastTransition.present
            /\ LastTransition.to \notin {"self", "end"}
           THEN LastTransition.to
           ELSE hist.stateAtLine

\* A line is evaluated in the state "body" that the line before moved to,
\* and a later line moved back to "start".
C21_Witness ==
  /\ pc = "line" /\ lineNo = 3
  /\ hist.stateAtLine = "body" /\ currentStateName = "start"
  /\ hist.matchedLines = {1, 2, 3}

\* The content of the value a coercion result stands for.
ContentOf(c) ==
  IF c.list THEN [k |-> "arr", items |-> [i \in 1..Len(c.items) |-> Deep(c.items[i], <<>>)]]
  ELSE Deep(c.v, <<>>)

\* The named groups of the matched pattern and the variable each binds.
BoundGroups == {GroupNames(Pattern.regex.re)[i] : i \in 1..Len(GroupNames(Pattern.regex.re))}
BoundVariables == {VarNameOf(Pattern.map, g) : g \in BoundGroups}

\* The record pushed last, with its arrays written out.
LastRecord == DeepObj(records[Len(records)], heap)

\* C22: the steps of a matched pattern run in the order bindings, actions,
\* transition.  An emit that is the first action of the pattern records,
\* under the mapped name of each named group, the value the group captured
\* on this line; right after a set of a variable the line has bound, the
\* variable holds the value of the set, and right after a clear of it the
\* variable is absent; the current state is the one the line was looked up
\* in until the transition, the last step, has run.
C22_BindingsActionsTransition ==
  InMatch =>
    /\ currentStateName = hist.stateAtLine
    /\ (pc # "bind" /\ actIdx = 2 /\ hist.lastOp = "emit") =>
         \A g \in BoundGroups :
           /\ VarNameOf(Pattern.map, g) \in DOMAIN LastRecord
           /\ LastRecord[VarNameOf(Pattern.map, g)] =
                ContentOf(Assigned(options, VarNameOf(Pattern.map, g), groups[g],
                                   groups[g], VariableIndex(template)))
    /\ (pc # "bind" /\ hist.lastOp = "set" /\ hist.lastVar \in BoundVariables) =>
         Deep(working[hist.lastVar], heap) =
           LET value == ActionValue(Pattern.actions[actIdx - 1], groups)
           IN ContentOf(Assigned(options, hist.lastVar, ToStringOrEmpty(value), value,
                                 VariableIndex(template)))
    /\ (pc # "bind" /\ hist.lastOp = "clear" /\ hist.lastVar \in BoundVariables) =>
         hist.lastVar \notin DOMAIN working

\* A set has replaced, on the line that bound it, the captured value "1".
C22_Witness ==
  /\ InMatch /\ pc # "bind"
  /\ hist.lastOp = "set" /\ hist.lastVar \in BoundVariables
  /\ groups[hist.lastVar] = StrV(<<"1">>)
  /\ working[hist.lastVar] = StrV(<<"k">>)

\* C23: a line that no pattern of the current state matches (the step from
\* the head of the line loop back to it) leaves the current state, the
\* working set, the arrays, the records, matches and errors as they were,
\* and counts the line.
C23_NonMatchChangesNothing ==
  [][(pc = "line" /\ pc' = "line") =>
       /\ UNCHANGED <<currentStateName, working, heap, records, matches, errors>>
       /\ ~matched'
       /\ linesProcessed' = linesProcessed + 1
       /\ lineNo' = lineNo + 1]_vars

\* A line that matched nothing has been passed with a record, a variable and
\* a match already there.
C23_Witness ==
  /\ pc = "line" /\ lineNo = 2 /\ ~matched
  /\ matches = 1 /\ Len(records) = 1 /\ DOMAIN working # {}
  /\ errors = <<>>

\* C24: a variable is in the working set only while it is live (bound, set
\* or appended and not cleared since), so right after a clear of v the key v
\* is absent, and every record has only keys that were live at its emit; an
\* append on a variable that is absent makes a list of one element; a clear
\* of an absent variable, and a clear that names no variable, leave the
\* working set and the arrays as they were.
C24_ClearRemoves ==
  /\ DOMAIN working \subseteq hist.live
  /\ \A i \in 1..Len(records) : DOMAIN records[i] \subseteq hist.liveAtEmit[i]
  /\ (hist.lastOp = "clear" /\ hist.lastVar # "") => hist.lastVar \notin DOMAIN working
  /\ (hist.lastOp = "append" /\ hist.lastVar # ""
        /\ hist.lastVar \notin DOMAIN hist.workingBefore) =>
       /\ hist.lastVar \in DOMAIN working
       /\ IsArray(working[hist.lastVar])
       /\ Len(heap[working[hist.lastVar].n]) = 1
  /\ (hist.lastOp = "clear"
        /\ (hist.lastVar = "" \/ hist.lastVar \notin DOMAIN hist.workingBefore)) =>
       /\ working = hist.workingBefore
       /\ heap = hist.heapBefore

\* After a set, a clear and an emit of a record without x, an append on x
\* has made a list of one element.
C24_Witness ==
  /\ hist.lastOp = "append" /\ hist.lastVar = "x"
  /\ "x" \notin DOMAIN hist.workingBefore
  /\ Len(records) >= 2
  /\ "x" \in DOMAIN records[Len(records) - 1]
  /\ "x" \notin DOMAIN records[Len(records)]
  /\ Deep(working["x"], heap) = [k |-> "arr", items |-> <<StrV(<<"k">>)>>]

\* C25: an entry of the compiled cache is never removed or replaced: every
\* id that was in the cache when the call was made is still there with the
\* same template, start state and patterns; a call whose template has such
\* an id does not compile (it cannot fail to) and runs on the cached
\* template, whatever states the template it was given has.
C25_CompiledOncePerId ==
  /\ \A id \in DOMAIN hist.cacheBefore :
       /\ id \in DOMAIN compiledCache
       /\ compiledCache[id].template = hist.cacheBefore[id].template
       /\ compiledCache[id].startState = hist.cacheBefore[id].startState
       /\ Sources(compiledCache[id].states) = Sources(hist.cacheBefore[id].states)
  /\ template.id \in DOMAIN hist.cacheBefore =>
       /\ ~hist.compileFailed
       /\ result.status # "thrown"
       /\ pc \in {"bind", "action", "transition"} =>
            [Pattern EXCEPT !.regex.lastIndex = 0] =
              CompilePattern(hist.cacheBefore[template.id].template
                               .states[1].patterns[matchedIdx + 1])

\* A call given, under a cached id, a template whose regex does not
\* compile returned records made by the patterns of the cached template.
C25_Witness ==
  /\ pc = "idle" /\ result.status = "returned"
  /\ template.id \in DOMAIN hist.cacheBefore
  /\ InvalidPatterns(template.states) # {}
  /\ Compiled.template # template
  /\ Len(result.records) > 0

\* C26: every call starts the line loop with an empty working set, no
\* records, no trace entries, no arrays, no errors, zero counters and the
\* start state of its compiled template; and what it holds at any time is
\* its own: the records are those of its own emits, the variables those it
\* bound, set or appended, the trace entries those of its own lines, matches
\* the number of its own matched lines.
C26_CallsAreIsolated ==
  /\ (pc = "line" /\ lineNo = 0) =>
       /\ working = EmptyObj /\ records = <<>> /\ trace = <<>> /\ heap = <<>>
       /\ errors = <<>> /\ linesProcessed = 0 /\ matches = 0
       /\ currentStateName = Compiled.startState
  /\ pc # "idle" =>
       /\ Len(records) = Len(hist.snapshots)
       /\ \A i \in 1..Len(records) : DOMAIN records[i] \subseteq hist.liveAtEmit[i]
       /\ DOMAIN working \subseteq hist.live
       /\ matches = Cardinality(hist.matchedLines)
       /\ Len(trace) <= lineNo
       /\ \A i \in 1..Len(trace) : trace[i].line = lines[i]
  /\ (pc = "idle" /\ result.status = "returned") =>
       /\ Len(result.records) = Len(hist.snapshots)
       /\ \A i \in 1..Len(result.records) :
            DOMAIN result.records[i] = DOMAIN hist.snapshots[i]
       /\ result.meta.matches = Cardinality(hist.matchedLines)
       /\ Len(result.trace.entries) <= Len(lines)

\* The second call on an engine returned a record without the variable w
\* that the record of the first call holds.
C26_Witness ==
  /\ pc = "idle" /\ result.status = "returned"
  /\ prev.made /\ prev.result.status = "returned"
  /\ Len(prev.result.records) = 1 /\ "w" \in DOMAIN prev.result.records[1]
  /\ Len(result.records) = 1 /\ "w" \notin DOMAIN result.records[1]
  /\ result.trace.present /\ prev.result.trace.present

\* C27 (as claimed): the line loop never goes past the lines of the split
\* input, and a call that entered it ends with a Parse Result, in one of
\* three ways: the input exhausted, an "end" transition fired, or the
\* current state found missing.
C27_EndsInOneOfThreeWays ==
  /\ lineNo <= Len(lines)
  /\ (pc = "idle" /\ result.status # "none" /\ ~hist.compileFailed) =>
       /\ result.status = "returned"
       /\ \/ lineNo = Len(lines)
          \/ hist.endAt # 0
          \/ hist.faultAt # 0

\* C28: the split keeps every segment, the trailing empty one too: a text
\* has as many lines as it has line terminators (LF, or CR LF, which counts
\* once) plus one, so the empty text is one empty line and a text that ends
\* with a terminator has a final empty line; a call that runs through its
\* input reports that number as linesProcessed; and every processed line,
\* the final empty one included, is matched exactly when a pattern of the
\* state matches it, each match of the template emitting one record.
\* (Checked for the texts of SpecSplit and its template of the patterns ^$
\* and ^a(?<x>1)?, both with the action emit.)
Terminators(s) == Cardinality({i \in 1..Len(s) : s[i] = "\n"})
\* What ^$ and ^a(?<x>1)? match: the empty line, and the lines that start
\* with a.
LineMatches(i) == lines[i] = <<>> \/ lines[i][1] = "a"
C28_SplitKeepsTrailing ==
  ((pc # "idle" \/ result.status = "returned") /\ ~hist.compileFailed) =>
    /\ Len(lines) = Terminators(output) + 1
    /\ output = <<>> => lines = << <<>> >>
    /\ (output # <<>> /\ output[Len(output)] = "\n") => lines[Len(lines)] = <<>>
    /\ \A i \in 1..Len(lines) : \A j \in 1..Len(lines[i]) : lines[i][j] # "\n"
    /\ (pc = "idle" /\ result.status = "returned") =>
         /\ result.meta.linesProcessed = Terminators(output) + 1
         /\ Len(result.records) = result.meta.matches
    /\ \A i \in 1..lineNo : (i \in hist.matchedLines) = LineMatches(i)
C28_Witness ==
  /\ pc = "idle" /\ result.status = "returned"
  /\ output = <<"a", "\r", "\n">>
  /\ lines = << <<"a">>, <<>> >>
  /\ hist.matchedLines = {1, 2}
  /\ Len(result.records) = 2

\* The variable is declared with the type number.
NumberTyped(v) ==
  v \in DOMAIN VariableIndex(template) /\ VariableIndex(template)[v].type = "number"
\* What the claim has stored for the raw string s: the number of a numeric
\* literal, and otherwise s itself.
StoredFor(s) ==
  IF IsNumericString(s) THEN NumV(DecimalValue(Trim(s), 0)) ELSE StrV(s)
\* The raw string of the set or append executed last: String(value ?? '').
LastRaw == ToStringOrEmpty(ActionValue(Pattern.actions[actIdx - 1], groups)).s

\* C29 (as claimed): with coerceTypes, a variable of type number holds,
\* right after the bindings, the number of the string its group captured
\* when that is a numeric literal and the string itself otherwise; right
\* after a set it holds, and right after an append its array ends with, the
\* number of the raw string of the action when that is a numeric literal
\* and the raw string itself otherwise, the empty string included.
C29_NumberOrOriginalString ==
  (InMatch /\ pc # "bind" /\ options.coerceTypes) =>
    /\ actIdx = 1 =>
         \A g \in BoundGroups :
           (NumberTyped(VarNameOf(Pattern.map, g)) /\ groups[g].k = "str") =>
             working[VarNameOf(Pattern.map, g)] = StoredFor(groups[g].s)
    /\ (actIdx > 1 /\ hist.lastOp = "set" /\ NumberTyped(hist.lastVar)) =>
         working[hist.lastVar] = StoredFor(LastRaw)
    /\ (actIdx > 1 /\ hist.lastOp = "append" /\ NumberTyped(hist.lastVar)) =>
         /\ IsArray(working[hist.lastVar])
         /\ heap[working[hist.lastVar].n][Len(heap[working[hist.lastVar].n])] =
              StoredFor(LastRaw)

\* A line of the running (or last) call was looked up in a state that the
\* state table does not hold.
UnknownStateMet ==
  /\ ~hist.compileFailed
  /\ lineNo >= 1
  /\ hist.stateAtLine \notin DOMAIN Compiled.states

\* C30: the result of a parse in which no line was looked up in an unknown
\* state has meta.errors undefined; the result of any other parse has a
\* meta.errors list of exactly one message, the unknown-state message; and
\* once an error is recorded no line is processed: the parse is at its
\* return, at the line of the lookup, the only line looked up in a missing
\* state, and the errors list never holds more than one message.
C30_ErrorsAbsentOrSingle ==
  /\ (pc = "idle" /\ result.status = "returned") =>
       IF UnknownStateMet
         THEN /\ result.meta.errors.defined
              /\ result.meta.errors.list = <<UnknownStateMessage(hist.stateAtLine)>>
         ELSE ~result.meta.errors.defined
  /\ Len(errors) <= 1
  /\ (pc # "idle" /\ errors = <<>>) => ~UnknownStateMet
  /\ errors # <<>> =>
       /\ UnknownStateMet
       /\ pc \in {"return", "idle"}
       /\ lineNo = hist.faultAt
C30_Witness ==
  /\ pc = "idle" /\ result.status = "returned"
  /\ UnknownStateMet
  /\ result.meta.errors.defined
  /\ lineNo < Len(lines)

\* C31 (as claimed): in a parse with a template the Validator accepts the
\* current state is always a key of the compiled state table, and the
\* result has no meta.errors.
C31_AcceptedNeverUnknown ==
  (~hist.compileFailed /\ (pc # "idle" \/ result.status = "returned")) =>
    /\ currentStateName \in DOMAIN Compiled.states
    /\ (pc = "idle" => ~result.meta.errors.defined)

\* The patterns of the i-th state of the template of the call, as
\* compilation makes them.
CompiledFrom(i) ==
  [j \in 1..Len(template.states[i].patterns) |->
     CompilePattern(template.states[i].patterns[j])]

\* C32 (as claimed): after the compilation of a template the Validator
\* accepts, the state table has as many entries as template.states has
\* elements, the entry of each state holds that state's patterns in their
\* order, and the patterns the first line is matched against are those of
\* template.states[0].
C32_CompilationKeepsEveryState ==
  (~hist.compileFailed /\ pc # "idle") =>
    /\ Cardinality(DOMAIN Compiled.states) = Len(template.states)
    /\ lineNo = 0 =>
         \A i \in 1..Len(template.states) :
           /\ template.states[i].name \in DOMAIN Compiled.states
           /\ Compiled.states[template.states[i].name].patterns = CompiledFrom(i)
    /\ lineNo = 1 => hist.before = CompiledFrom(1)

\* C33 (as claimed): the bindings of a matched line leave the variable of
\* every named group that did not participate as it was before the line
\* (absent, or present with the same value), and no step of a parse leaves
\* a key with the value undefined in the working set or in a record.
C33_AbsentGroupChangesNothing ==
  [][/\ (pc = "bind" /\ pc' # "idle") =>
          \A g \in BoundGroups :
            groups[g] = Undef =>
              /\ (VarNameOf(Pattern.map, g) \in DOMAIN working')
                    = (VarNameOf(Pattern.map, g) \in DOMAIN working)
              /\ ObjGet(working', VarNameOf(Pattern.map, g))
                    = ObjGet(working, VarNameOf(Pattern.map, g))
     /\ \A k \in DOMAIN working' : working'[k] # Undef
     /\ \A i \in 1..Len(records') : \A k \in DOMAIN records'[i] : records'[i][k] # Undef
    ]_vars

\* The line just processed got a trace entry: the last one of the trace.
LineTraced ==
  /\ pc = "line" /\ lineNo >= 1 /\ options.debug /\ errors = <<>>
  /\ Len(trace) >= 1
LastEntry == trace[Len(trace)]
\* The transition of the pattern that matched the line just processed.
TransitionOfLine ==
  Compiled.states[hist.stateAtLine].patterns[LastEntry.matchedIdx + 1].transition

\* C34: with debug, the trace entry of a line holds the line and the state
\* the machine is in once the line's transition is applied: the target X of
\* the matched pattern's transition when that is a state name, and the
\* state the line was evaluated in when no pattern matched, the matched
\* pattern has no transition, or its transition is to "self" or to "end";
\* entries already in the trace are not changed by later lines.
C34_TraceStateAfterTransition ==
  /\ LineTraced =>
       /\ LastEntry.line = lines[lineNo]
       /\ LastEntry.state = currentStateName
       /\ LastEntry.state =
            IF /\ LastEntry.matched
               /\ TransitionOfLine.present
               /\ TransitionOfLine.to \notin {"self", "end"}
              THEN TransitionOfLine.to
              ELSE hist.stateAtLine
  /\ (pc = "idle" /\ result.status = "returned" /\ options.debug) =>
       result.trace.entries = trace
C34_Witness ==
  /\ LineTraced
  /\ Len(trace) = 3
  /\ trace[1].matched /\ trace[1].state = "body"
  /\ trace[2].matched /\ trace[2].state = "body"
  /\ hist.stateAtLine = "body"
  /\ TransitionOfLine.present /\ TransitionOfLine.to = "start"
  /\ LastEntry.state = "start"

\* C35: an upsert of a template the Validator rejects throws, leaves every
\* stored template as it is and stores nothing of the rejected template; an
\* upsert of a template the Validator accepts does not throw and stores the
\* template under its id with metadata.updated the time of the upsert; and
\* the get of that id that follows returns this template.
C35_UpsertOnlyWhenValid ==
  [][/\ store'.last.op = "upsert" =>
          \A t \in store'.last.arg :
            IF Validate(t).valid
              THEN /\ ~store'.last.thrown
                   /\ t.id \in DOMAIN store'.files
                   /\ [store'.files[t.id] EXCEPT !.metadata = t.metadata] = t
                   /\ store'.files[t.id].metadata.present
                   /\ store'.files[t.id].metadata.updated = store'.last.at
              ELSE /\ store'.last.thrown
                   /\ \A id \in DOMAIN store.files :
                        id \in DOMAIN store'.files /\ store'.files[id] = store.files[id]
                   /\ t.id \in DOMAIN store'.files =>
                        [store'.files[t.id] EXCEPT !.metadata = t.metadata] # t
     /\ (/\ store.last.op = "upsert" /\ ~store.last.thrown
         /\ store'.last.op = "get" /\ store'.last.id = store.last.id) =>
          /\ store'.last.found = store.last.found
          /\ \A u \in store'.last.found :
               /\ u.metadata.updated = store.last.at
               /\ \A t \in store.last.arg : [u EXCEPT !.metadata = t.metadata] = t
    ]_vars
\* A get returns a template that a second upsert stored under the id of a
\* bundled template.
C35_Witness ==
  /\ store.last.op = "get" /\ store.last.id = "bundled"
  /\ \E u \in store.last.found :
       /\ u.name = "mine"
       /\ u.metadata.updated = 2
       /\ store.now = 3

\* C36 (as claimed): whatever calls were made, a template stored under the
\* id of a bundled template for which an upsert was made is the template of
\* the last such upsert, and no bundled template the Validator rejects is
\* in the store.
C36_SeedingNeverOverwrites ==
  /\ \A id \in DOMAIN store.upserted \cap {b.id : b \in BundledTemplates} :
       id \in DOMAIN store.files => store.files[id] = store.upserted[id]
  /\ \A id \in DOMAIN store.files :
       ~(\E b \in BundledTemplates : ~Validate(b).valid /\ store.files[id] = b)

\* The ciphers of the options of the call (the default when none is
\* configured), and those the call may use.
ConfiguredCiphers(c) == IF c.cipher.present THEN c.cipher.list ELSE <<"aes256-ctr">>
UsableCiphers(c) ==
  IF c.fallbackCiphers THEN ConfiguredCiphers(c) ELSE <<ConfiguredCiphers(c)[1]>>
\* The step made a connection attempt.
Connected == conn'.connects = conn.connects + 1

====
